---- MODULE Spec2Model ----
(***************************************************************************)
(* Column lineage extraction of src/app.py: the regex based LineageParser, *)
(* the graph builder and _run_lineage over the connection registry.        *)
(* SQL text is a sequence of one-character strings, so that the regular    *)
(* expressions of the parser are modelled by what they match.              *)
(***************************************************************************)
EXTENDS Integers, Sequences, FiniteSets, TLC

\* ------------------------------------------------------------------------
\* Text
\* ------------------------------------------------------------------------

\* a Python str as the sequence of its characters
S(s) == [i \in 1..Len(s) |-> SubSeq(s, i, i)]

UpperAlpha == S("ABCDEFGHIJKLMNOPQRSTUVWXYZ")
LowerAlpha == S("abcdefghijklmnopqrstuvwxyz")
DigitChars == S("0123456789")

Range(f) == {f[i] : i \in DOMAIN f}

\* regex class \w (ASCII part)
WordChars == Range(UpperAlpha) \cup Range(LowerAlpha) \cup Range(DigitChars) \cup {"_"}
\* regex class \s, and the characters str.strip() removes
SpaceChars == {" ", "\t", "\n", "\r", "\f"}

IsWord(c) == c \in WordChars
IsSpace(c) == c \in SpaceChars

LowerOf == [c \in Range(UpperAlpha) |-> LowerAlpha[CHOOSE i \in 1..26 : UpperAlpha[i] = c]]
UpperOf == [c \in Range(LowerAlpha) |-> UpperAlpha[CHOOSE i \in 1..26 : LowerAlpha[i] = c]]

LowerChar(c) == IF c \in DOMAIN LowerOf THEN LowerOf[c] ELSE c
UpperChar(c) == IF c \in DOMAIN UpperOf THEN UpperOf[c] ELSE c

\* str.lower() and str.upper()
lower(s) == [i \in 1..Len(s) |-> LowerChar(s[i])]
upper(s) == [i \in 1..Len(s) |-> UpperChar(s[i])]

\* s[i-1:j-1] of Python, for 1-based positions i <= j
Slice(s, i, j) == SubSeq(s, i, j - 1)

Min(set) == CHOOSE x \in set : \A y \in set : x <= y
Max(set) == CHOOSE x \in set : \A y \in set : x >= y

\* greedy \w* from position i: the first position at or after i that holds no word
\* character (Len(s) + 1 when the word runs to the end)
WordEnd(s, i) ==
    IF i > Len(s) THEN i
    ELSE Min({j \in i..(Len(s) + 1) : j > Len(s) \/ ~IsWord(s[j])})

\* greedy \s* from position i
SpaceEnd(s, i) ==
    IF i > Len(s) THEN i
    ELSE Min({j \in i..(Len(s) + 1) : j > Len(s) \/ ~IsSpace(s[j])})

\* the literal lit (upper case) at position i, under re.IGNORECASE
LitAt(s, i, lit) ==
    /\ i + Len(lit) - 1 <= Len(s)
    /\ \A k \in 1..Len(lit) : UpperChar(s[i + k - 1]) = lit[k]

\* regex \b between s[i-1] and s[i]
WordBoundary(s, i) ==
    (i > 1 /\ i - 1 <= Len(s) /\ IsWord(s[i - 1])) # (i <= Len(s) /\ IsWord(s[i]))

\* the literal lit at position i, case sensitive
ExactAt(s, i, lit) ==
    /\ i + Len(lit) - 1 <= Len(s)
    /\ \A k \in 1..Len(lit) : s[i + k - 1] = lit[k]

\* substring test  (lit in s), case sensitive
Contains(s, lit) == \E i \in 1..Len(s) : ExactAt(s, i, lit)

\* str.strip(): from the first to the last character that is no white space
Between(s, keep) == IF keep = {} THEN <<>> ELSE SubSeq(s, Min(keep), Max(keep))
strip(s) == Between(s, {j \in 1..Len(s) : ~IsSpace(s[j])})

\* str.rstrip(';'): up to the last character that is no semicolon
UpTo(s, keep) == IF keep = {} THEN <<>> ELSE SubSeq(s, 1, Max(keep))
rstrip_semicolon(s) == UpTo(s, {j \in 1..Len(s) : s[j] # ";"})

\* ------------------------------------------------------------------------
\* _split_csv
\* ------------------------------------------------------------------------

Max0(n) == IF n > 0 THEN n ELSE 0

\* the next position at or after i that holds '(' , ')' or ',': every character
\* before it takes the loop's last branch (buf.append(ch))
NextSpecial(text, i) ==
    Min({j \in i..(Len(text) + 1) : j > Len(text) \/ text[j] \in {"(", ")", ","}})

\* the loop of _split_csv from character i on, with the loop's locals. buf is
\* text[start..i-1]: every character read since the last split was appended to it.
RECURSIVE SplitLoop(_, _, _, _, _)

\* _split_csv without its depth counter: every comma splits
SplitAtAnyDepth(text, j, parts, depth, start) ==
    IF j > Len(text)
    THEN (IF start <= Len(text) THEN Append(parts, SubSeq(text, start, Len(text)))
          ELSE parts)
    ELSE IF text[j] = "," THEN SplitLoop(text, j + 1, Append(parts, Slice(text, start, j)), depth, j + 1)
    ELSE SplitLoop(text, j + 1, parts, depth, start)

\* the loop at the character j that holds '(' , ')' or ',', or at the end of the
\* text (j > Len(text)), where a non-empty buf gives the last part
SplitAt(text, j, parts, depth, start) ==
    IF j > Len(text)
    THEN (IF start <= Len(text) THEN Append(parts, SubSeq(text, start, Len(text)))
          ELSE parts)
    ELSE IF text[j] = "(" THEN SplitLoop(text, j + 1, parts, depth + 1, start)
    ELSE IF text[j] = ")" THEN SplitLoop(text, j + 1, parts, Max0(depth - 1), start)
    ELSE IF depth = 0 THEN SplitLoop(text, j + 1, Append(parts, Slice(text, start, j)), depth, j + 1)
    ELSE SplitLoop(text, j + 1, parts, depth, start)

SplitLoop(text, i, parts, depth, start) ==
    SplitAt(text, IF i > Len(text) THEN i ELSE NextSpecial(text, i), parts, depth, start)

\* _split_csv
split_csv(text) == SplitLoop(text, 1, <<>>, 0, 1)

\* ------------------------------------------------------------------------
\* LineageParser
\* ------------------------------------------------------------------------

KW_SELECT == S("SELECT")
KW_FROM == S("FROM")
KW_JOIN == S("JOIN")
KW_AS == S("AS")
KW_CREATE == S("CREATE")
KW_OR == S("OR")
KW_REPLACE == S("REPLACE")
KW_VIEW == S("VIEW")
KW_CASE == S("CASE")
AggregateNames == {S("COUNT"), S("SUM"), S("AVG"), S("MIN"), S("MAX")}
ComputedNames == {S("ROUND"), S("COALESCE"), S("NVL"), S("CAST"), S("ABS")}

\* a dict given as the sequence of its <<key, value>> items: the value a key maps to
\* is the one stored last
DictKeys(items) == {items[i][1] : i \in DOMAIN items}
DictGet(items, k) == items[CHOOSE i \in DOMAIN items :
                             items[i][1] = k /\ \A j \in DOMAIN items : items[j][1] = k => j <= i][2]

\* LineageParser.__init__: self.catalog, keys and column names lower-cased
DictOf(items) == [k \in DictKeys(items) |-> DictGet(items, k)]

\* a catalog index that keeps the names as they are given
catalog_as_given(catalog) == DictOf(catalog)

parser_catalog(catalog) ==
    DictOf([i \in DOMAIN catalog |->
              <<lower(catalog[i][1]), [j \in DOMAIN catalog[i][2] |-> lower(catalog[i][2][j])]>>])

\* VIEW\s+\w+\s+AS\s* at position p: the position after the match, 0 when it fails
PrologueRest(sql, p) ==
    LET a == SpaceEnd(sql, p + 4)
        b == WordEnd(sql, a)
        c == SpaceEnd(sql, b)
    IN IF LitAt(sql, p, KW_VIEW) /\ a > p + 4 /\ b > a /\ c > b /\ LitAt(sql, c, KW_AS)
       THEN SpaceEnd(sql, c + 2) ELSE 0

\* ^\s*CREATE\s+(?:OR\s+REPLACE\s+)?VIEW\s+\w+\s+AS\s* : the position after the
\* match, 1 when the text has no such prologue
PrologueEnd(sql) ==
    LET p0 == SpaceEnd(sql, 1)
        p1 == SpaceEnd(sql, p0 + 6)
        q1 == SpaceEnd(sql, p1 + 2)
        q2 == SpaceEnd(sql, q1 + 7)
        withOr == LitAt(sql, p1, KW_OR) /\ q1 > p1 + 2 /\ LitAt(sql, q1, KW_REPLACE)
                  /\ q2 > q1 + 7 /\ PrologueRest(sql, q2) # 0
    IN IF ~(LitAt(sql, p0, KW_CREATE) /\ p1 > p0 + 6) THEN 1
       ELSE IF withOr THEN PrologueRest(sql, q2)
       ELSE IF PrologueRest(sql, p1) # 0 THEN PrologueRest(sql, p1)
       ELSE 1

\* LineageParser._normalize
normalize(sql) ==
    rstrip_semicolon(strip(SubSeq(sql, PrologueEnd(sql), Len(sql))))

\* (?:FROM|JOIN)\s+(\w+)(?:\s+AS\s+(\w+)|\s+(\w+))? tried at position i
AliasMatchAt(sql, i) ==
    LET a == SpaceEnd(sql, i + 4)
        b == WordEnd(sql, a)
        c == SpaceEnd(sql, b)
        d == SpaceEnd(sql, c + 2)
        e == WordEnd(sql, d)
        f == WordEnd(sql, c)
        head == (LitAt(sql, i, KW_FROM) \/ LitAt(sql, i, KW_JOIN)) /\ a > i + 4 /\ b > a
        alt1 == c > b /\ LitAt(sql, c, KW_AS) /\ d > c + 2 /\ e > d
        alt2 == c > b /\ f > c
    IN IF ~head THEN [ok |-> FALSE, g1 |-> <<>>, g2 |-> <<>>, g3 |-> <<>>, end |-> i]
       ELSE IF alt1
       THEN [ok |-> TRUE, g1 |-> Slice(sql, a, b), g2 |-> Slice(sql, d, e), g3 |-> <<>>, end |-> e]
       ELSE IF alt2
       THEN [ok |-> TRUE, g1 |-> Slice(sql, a, b), g2 |-> <<>>, g3 |-> Slice(sql, c, f), end |-> f]
       ELSE [ok |-> TRUE, g1 |-> Slice(sql, a, b), g2 |-> <<>>, g3 |-> <<>>, end |-> b]

\* re.finditer of the FROM/JOIN pattern, from position i on: the leftmost match,
\* then the matches after its end
RECURSIVE alias_matches(_, _)

MatchThen(sql, m) == <<m>> \o alias_matches(sql, m.end)

MatchesFrom(sql, starts) ==
    IF starts = {} THEN <<>> ELSE MatchThen(sql, AliasMatchAt(sql, Min(starts)))

alias_matches(sql, i) == MatchesFrom(sql, {p \in i..Len(sql) : AliasMatchAt(sql, p).ok})

\* alias_map[alias] = table
DictSet(map, k, v) == [x \in DOMAIN map \cup {k} |-> IF x = k THEN v ELSE map[x]]

EmptyDict == [x \in {} |-> <<>>]

\* the loop body of _build_alias_map over the matches from the k-th on
RECURSIVE AliasLoop(_, _, _, _)
AliasLoop(cat, ms, k, alias_map) ==
    IF k > Len(ms) THEN alias_map
    ELSE LET m == ms[k]
             table == lower(m.g1)
             alias == lower(IF m.g2 # <<>> THEN m.g2 ELSE IF m.g3 # <<>> THEN m.g3 ELSE m.g1)
         IN IF table \in DOMAIN cat
            THEN AliasLoop(cat, ms, k + 1, DictSet(alias_map, alias, table))
            ELSE AliasLoop(cat, ms, k + 1, alias_map)

\* LineageParser._build_alias_map
build_alias_map(cat, sql) == AliasLoop(cat, alias_matches(sql, 1), 1, EmptyDict)

\* the first position p >= i where \b<kw>\b matches under re.IGNORECASE, 0 if none
MinOr0(hits) == IF hits = {} THEN 0 ELSE Min(hits)

FindKeyword(sql, i, kw) ==
    MinOr0({p \in i..Len(sql) : /\ LitAt(sql, p, kw)
                                /\ WordBoundary(sql, p)
                                /\ WordBoundary(sql, p + Len(kw))})

\* the match with SELECT at p, running to the end of the text without a FROM
SelectAtToEnd(sql, p) ==
    IF p = 0 THEN [matched |-> FALSE, group1 |-> <<>>]
    ELSE IF FindKeyword(sql, p + 6, KW_FROM) = 0
    THEN [matched |-> TRUE, group1 |-> Slice(sql, p + 6, Len(sql) + 1)]
    ELSE [matched |-> TRUE, group1 |-> Slice(sql, p + 6, FindKeyword(sql, p + 6, KW_FROM))]

\* the match with SELECT at p and the first FROM behind it at q (0: there is none)
SelectGroup(sql, p, q) ==
    IF q = 0 THEN [matched |-> FALSE, group1 |-> <<>>]
    ELSE [matched |-> TRUE, group1 |-> Slice(sql, p + 6, q)]

SelectAt(sql, p) ==
    SelectGroup(sql, p, IF p = 0 THEN 0 ELSE FindKeyword(sql, p + 6, KW_FROM))

\* re.search(r'\bSELECT\b(.*?)\bFROM\b', sql, IGNORECASE | DOTALL): group(1)
select_list(sql) == SelectAt(sql, FindKeyword(sql, 1, KW_SELECT))

\* \bAS\s+(\w+)\s*$ tried at position p
AsMatchAt(part, p) ==
    LET c == SpaceEnd(part, p + 2)
        e == WordEnd(part, c)
    IN /\ WordBoundary(part, p)
       /\ LitAt(part, p, KW_AS)
       /\ c > p + 2
       /\ e > c
       /\ SpaceEnd(part, e) = Len(part) + 1

\* re.search(r'\bAS\s+(\w+)\s*$', part, IGNORECASE): am.start() as a position, 0 if None
AsSearch(part) == MinOr0({p \in 1..Len(part) : AsMatchAt(part, p)})

\* am.group(1)
AsGroup1(part, p) ==
    LET c == SpaceEnd(part, p + 2) IN Slice(part, c, WordEnd(part, c))

\* re.findall(r'\b\w+\b', part)[-1]: the last maximal run of word characters,
\* <<>> when part has no word character
WordEndingAt(part, last) ==
    SubSeq(part, Min({j \in 1..last : \A k \in j..last : IsWord(part[k])}), last)

LastWord(part, words) == IF words = {} THEN <<>> ELSE WordEndingAt(part, Max(words))

last_token(part) == LastWord(part, {j \in 1..Len(part) : IsWord(part[j])})

\* re.search(r'\b(<names>)\s*\(', eu)
CallOf(names, eu) ==
    \E p \in 1..Len(eu) : \E kw \in names :
        /\ WordBoundary(eu, p)
        /\ ExactAt(eu, p, kw)
        /\ LET o == SpaceEnd(eu, p + Len(kw)) IN o <= Len(eu) /\ eu[o] = "("

\* the if/elif chain that sets etype
\* the chain with the CASE test ahead of the aggregate test
TypeOfCaseFirst(expr, eu) ==
    IF Contains(eu, KW_CASE) THEN S("case")
    ELSE IF CallOf(AggregateNames, eu) THEN S("aggregate")
    ELSE IF Contains(expr, S("||")) THEN S("concat")
    ELSE IF CallOf(ComputedNames, eu) THEN S("computed")
    ELSE S("direct")

\* the chain without its computed branch
TypeOfNoComputed(expr, eu) ==
    IF CallOf(AggregateNames, eu) THEN S("aggregate")
    ELSE IF Contains(eu, KW_CASE) THEN S("case")
    ELSE IF Contains(expr, S("||")) THEN S("concat")
    ELSE S("direct")

TypeOf(expr, eu) ==
    IF CallOf(AggregateNames, eu) THEN S("aggregate")
    ELSE IF Contains(eu, KW_CASE) THEN S("case")
    ELSE IF Contains(expr, S("||")) THEN S("concat")
    ELSE IF CallOf(ComputedNames, eu) THEN S("computed")
    ELSE S("direct")

\* eu = expr.upper()
edge_type_of(expr) == TypeOf(expr, upper(expr))

\* re.findall(r'(\w+)\.(\w+)', expr), from position i on
RefAt(expr, i) ==
    LET a == WordEnd(expr, i)
    IN a > i /\ a <= Len(expr) /\ expr[a] = "." /\ WordEnd(expr, a + 1) > a + 1

RECURSIVE find_refs(_, _)

\* the match of (\w+)\.(\w+) from p to b with its dot at a, then the later ones
RefThen(expr, p, a, b) ==
    << <<Slice(expr, p, a), Slice(expr, a + 1, b)>> >> \o find_refs(expr, b)

RefFirst(expr, p, a) == RefThen(expr, p, a, WordEnd(expr, a + 1))

RefsFrom(expr, starts) ==
    IF starts = {} THEN <<>> ELSE RefFirst(expr, Min(starts), WordEnd(expr, Min(starts)))

find_refs(expr, i) == RefsFrom(expr, {p \in i..Len(expr) : RefAt(expr, p)})

\* the alias taken from the first token of the expression instead of the last
AliasOfFirstToken(part, am, default) ==
    IF am # 0 THEN lower(AsGroup1(part, am))
    ELSE IF last_token(part) # <<>>
    THEN lower(Slice(part, Min({j \in 1..Len(part) : IsWord(part[j])}),
                     WordEnd(part, Min({j \in 1..Len(part) : IsWord(part[j])}))))
    ELSE default

\* one output column of _extract_columns, from a stripped non-empty part
\* am.group(1).lower() if am else (re.findall(r'\b\w+\b', part) or [default])[-1].lower()
AliasOf(part, am, default) ==
    IF am # 0 THEN lower(AsGroup1(part, am))
    ELSE IF last_token(part) # <<>> THEN lower(last_token(part))
    ELSE default

\* part[:am.start()].strip() if am else part
ExprOf(part, am) == IF am # 0 THEN strip(Slice(part, 1, am)) ELSE part

ColumnFrom(alias, expr) ==
    [alias |-> alias, refs |-> find_refs(expr, 1), type |-> edge_type_of(expr)]

ColumnAt(part, am) == ColumnFrom(AliasOf(part, am, S("unknown")), ExprOf(part, am))

column_of(part) == ColumnAt(part, AsSearch(part))

\* the loop of _extract_columns over the parts from the k-th on
RECURSIVE ColumnsLoop(_, _)
ColumnsLoop(parts, k) ==
    IF k > Len(parts) THEN <<>>
    ELSE IF strip(parts[k]) = <<>> THEN ColumnsLoop(parts, k + 1)
    ELSE <<column_of(strip(parts[k]))>> \o ColumnsLoop(parts, k + 1)

\* the columns of the match m of the SELECT ... FROM pattern
ColumnsOf(m) == IF ~m.matched THEN <<>> ELSE ColumnsLoop(split_csv(m.group1), 1)

\* LineageParser._extract_columns
extract_columns(sql) == ColumnsOf(select_list(sql))

\* _resolve with an alias it does not know falling back to a table of the map
RECURSIVE ResolveLoopFallback(_, _, _, _, _, _)
ResolveLoopFallback(cat, refs, alias_map, k, resolved, seen) ==
    IF k > Len(refs) THEN resolved
    ELSE LET alias == lower(refs[k][1])
             col == lower(refs[k][2])
             real == IF alias \in DOMAIN alias_map THEN alias_map[alias]
                     ELSE IF DOMAIN alias_map # {}
                     THEN alias_map[CHOOSE a \in DOMAIN alias_map : TRUE]
                     ELSE <<>>
             key == <<real, col>>
         IN IF real # <<>> /\ real \in DOMAIN cat /\ col \in Range(cat[real]) /\ key \notin seen
            THEN ResolveLoopFallback(cat, refs, alias_map, k + 1, Append(resolved, key),
                                     seen \cup {key})
            ELSE ResolveLoopFallback(cat, refs, alias_map, k + 1, resolved, seen)

\* _resolve taking any column of a table of the index
RECURSIVE ResolveLoopAnyColumn(_, _, _, _, _, _)
ResolveLoopAnyColumn(cat, refs, alias_map, k, resolved, seen) ==
    IF k > Len(refs) THEN resolved
    ELSE LET alias == lower(refs[k][1])
             col == lower(refs[k][2])
             real == IF alias \in DOMAIN alias_map THEN alias_map[alias] ELSE <<>>
             key == <<real, col>>
         IN IF real # <<>> /\ real \in DOMAIN cat /\ key \notin seen
            THEN ResolveLoopAnyColumn(cat, refs, alias_map, k + 1, Append(resolved, key),
                                      seen \cup {key})
            ELSE ResolveLoopAnyColumn(cat, refs, alias_map, k + 1, resolved, seen)

\* the loop of _resolve over the refs from the k-th on
RECURSIVE ResolveLoop(_, _, _, _, _, _)
ResolveLoop(cat, refs, alias_map, k, resolved, seen) ==
    IF k > Len(refs) THEN resolved
    ELSE LET alias == lower(refs[k][1])
             col == lower(refs[k][2])
             real == IF alias \in DOMAIN alias_map THEN alias_map[alias] ELSE <<>>
             key == <<real, col>>
         IN IF real # <<>> /\ real \in DOMAIN cat /\ col \in Range(cat[real]) /\ key \notin seen
            THEN ResolveLoop(cat, refs, alias_map, k + 1, Append(resolved, key), seen \cup {key})
            ELSE ResolveLoop(cat, refs, alias_map, k + 1, resolved, seen)

\* LineageParser._resolve
resolve(cat, refs, alias_map) == ResolveLoop(cat, refs, alias_map, 1, <<>>, {})

EdgeKey(e) == <<e.source_node, e.source_column, e.target_node, e.target_column>>

\* the inner loop of parse without its seen set
RECURSIVE EmitLoopNoSeen(_, _, _, _, _)
EmitLoopNoSeen(srcs, k, target_name, col, edges) ==
    IF k > Len(srcs) THEN edges
    ELSE EmitLoopNoSeen(srcs, k + 1, target_name, col,
                        Append(edges, [source_node |-> srcs[k][1], source_column |-> srcs[k][2],
                                       target_node |-> target_name, target_column |-> col.alias,
                                       edge_type |-> col.type]))

\* the inner loop of parse: the sources of one column, from the k-th on
RECURSIVE EmitLoop(_, _, _, _, _)
EmitLoop(srcs, k, target_name, col, edges) ==
    IF k > Len(srcs) THEN edges
    ELSE LET e == [source_node |-> srcs[k][1], source_column |-> srcs[k][2],
                   target_node |-> target_name, target_column |-> col.alias,
                   edge_type |-> col.type]
         IN IF \E i \in DOMAIN edges : EdgeKey(edges[i]) = EdgeKey(e)
            THEN EmitLoop(srcs, k + 1, target_name, col, edges)
            ELSE EmitLoop(srcs, k + 1, target_name, col, Append(edges, e))

\* the outer loop of parse over the columns from the k-th on
RECURSIVE ParseLoop(_, _, _, _, _, _)
ParseLoop(cat, alias_map, columns, k, target_name, edges) ==
    IF k > Len(columns) THEN edges
    ELSE ParseLoop(cat, alias_map, columns, k + 1, target_name,
                   EmitLoop(resolve(cat, columns[k].refs, alias_map), 1, target_name,
                            columns[k], edges))

\* the body of LineageParser.parse, for a parser whose self.catalog is cat: its
\* locals and the edges it returns
ParseWith(cat, target_name, sql, alias_map, columns) ==
    [sql |-> sql, alias_map |-> alias_map, columns |-> columns,
     edges |-> ParseLoop(cat, alias_map, columns, 1, target_name, <<>>)]

ParseBody(cat, target_name, sql) ==
    ParseWith(cat, target_name, sql, build_alias_map(cat, sql), extract_columns(sql))

parse_locals(cat, target_name, sql_text) == ParseBody(cat, target_name, normalize(sql_text))

\* LineageParser.parse
parse(cat, target_name, sql_text) == parse_locals(cat, target_name, sql_text).edges

\* ------------------------------------------------------------------------
\* Connectors
\* ------------------------------------------------------------------------

\* A JSON scalar is [type, value]: type "str" with its text, "int" with its decimal
\* digits, "null" (None), or "absent" for a key the dict does not have.
JStr(s) == [type |-> "str", value |-> s]
JInt(digits) == [type |-> "int", value |-> digits]
JNull == [type |-> "null", value |-> <<>>]
JAbsent == [type |-> "absent", value |-> <<>>]

\* dict.get(key, default), for the value v stored under the key
Get(v, default) == IF v.type = "absent" THEN default ELSE v

\* bool(v) of Python
Truthy(v) ==
    IF v.type = "str" THEN v.value # <<>>
    ELSE IF v.type = "int" THEN \E i \in DOMAIN v.value : v.value[i] # "0"
    ELSE FALSE

TypeErrorText == S("expected string or bytes-like object")
AttributeErrorText == S("object has no attribute")

Column(name) == [name |-> name, data_type |-> S("ANY"), is_pk |-> FALSE]

\* the loop of extract_output_columns_from_sql over the parts from the k-th on
RECURSIVE OutputColumnsLoop(_, _)
OutputColumn(part) == Column(AliasOf(part, AsSearch(part), S("col")))

OutputColumnsLoop(parts, k) ==
    IF k > Len(parts) THEN <<>>
    ELSE IF strip(parts[k]) = <<>> \/ strip(parts[k]) = S("*")
    THEN OutputColumnsLoop(parts, k + 1)
    ELSE <<OutputColumn(strip(parts[k]))>> \o OutputColumnsLoop(parts, k + 1)

OutputColumnsOf(m) == IF ~m.matched THEN <<>> ELSE OutputColumnsLoop(split_csv(m.group1), 1)

\* extract_output_columns_from_sql
extract_output_columns_from_sql(sql) == OutputColumnsOf(select_list(sql))

\* norm_cols of JsonConnector.get_all_objects; a raw column is
\* [name, data_type, is_pk] with data_type <<>> when the key is absent
norm_cols(cols) ==
    [i \in DOMAIN cols |->
        [name |-> lower(cols[i].name),
         data_type |-> IF cols[i].data_type = <<>> THEN S("ANY") ELSE cols[i].data_type,
         is_pk |-> cols[i].is_pk]]

\* the columns of a view or procedure of the document: those it declares, else
\* those of its SQL; extract_output_columns_from_sql raises TypeError on a
\* value that is no text
DerivedRaises(o) == o.columns = <<>> /\ Truthy(o.sql) /\ o.sql.type # "str"

DerivedColumns(o) ==
    IF o.columns # <<>> THEN norm_cols(o.columns)
    ELSE extract_output_columns_from_sql(IF Truthy(o.sql) THEN o.sql.value ELSE <<>>)

\* v.get('sql') / sp.get('body_sql'): None when the key is absent
SqlOf(o) == Get(o.sql, JNull)

\* JsonConnector.get_all_objects on the document data; ok is FALSE when it raises
json_get_all_objects(data) ==
    IF \/ \E i \in DOMAIN data.views : DerivedRaises(data.views[i])
       \/ \E j \in DOMAIN data.stored_procedures : DerivedRaises(data.stored_procedures[j])
    THEN [ok |-> FALSE, error |-> TypeErrorText,
          tables |-> <<>>, views |-> <<>>, stored_procedures |-> <<>>]
    ELSE [ok |-> TRUE, error |-> <<>>,
          tables |-> [i \in DOMAIN data.tables |->
                        [name |-> data.tables[i].name, type |-> "table",
                         columns |-> norm_cols(data.tables[i].columns), sql |-> JNull]],
          views |-> [i \in DOMAIN data.views |->
                        [name |-> data.views[i].name, type |-> "view",
                         columns |-> DerivedColumns(data.views[i]),
                         sql |-> SqlOf(data.views[i])]],
          stored_procedures |-> [i \in DOMAIN data.stored_procedures |->
                        [name |-> data.stored_procedures[i].name, type |-> "procedure",
                         columns |-> DerivedColumns(data.stored_procedures[i]),
                         sql |-> SqlOf(data.stored_procedures[i])]]]

\* JsonConnector.get_explicit_lineage
get_explicit_lineage(data) == data.lineage

\* ------------------------------------------------------------------------
\* Graph builder and _run_lineage
\* ------------------------------------------------------------------------

\* str(i) for i >= 0
RECURSIVE Decimal(_)
Decimal(i) ==
    IF i < 10 THEN <<DigitChars[i + 1]>>
    ELSE Decimal(i \div 10) \o <<DigitChars[(i % 10) + 1]>>

\* the objects with the views put first
AllObjectsViewsFirst(all_objects) ==
    all_objects.views \o all_objects.tables \o all_objects.stored_procedures

\* all_objects['tables'] + all_objects['views'] + all_objects['stored_procedures']
AllObjects(all_objects) ==
    all_objects.tables \o all_objects.views \o all_objects.stored_procedures

\* build_graph
NodeOf(o) == [id |-> o.name, label |-> o.name, type |-> o.type, columns |-> o.columns]

build_graph(all_objects, edges) ==
    [nodes |-> [i \in DOMAIN AllObjects(all_objects) |-> NodeOf(AllObjects(all_objects)[i])],
     edges |-> [i \in DOMAIN edges |->
                  [id |-> S("e") \o Decimal(i - 1),
                   source_node |-> edges[i].source_node,
                   source_column |-> edges[i].source_column,
                   target_node |-> edges[i].target_node,
                   target_column |-> edges[i].target_column,
                   edge_type |-> edges[i].edge_type]]]

\* a Python dict built from <<key, value>> items: the keys in the order of their
\* first insertion, each with the value stored last
MakeDict(items) ==
    LET firsts == {i \in DOMAIN items : \A j \in 1..(i - 1) : items[j][1] # items[i][1]}
        nth(k) == CHOOSE i \in firsts : Cardinality({j \in firsts : j < i}) = k - 1
    IN [k \in 1..Cardinality(firsts) |-> <<items[nth(k)][1], DictGet(items, items[nth(k)][1])>>]

\* the catalog dict built over the procedures as well
catalog_of_all(all_objects) ==
    LET objs == all_objects.tables \o all_objects.views \o all_objects.stored_procedures
    IN MakeDict([i \in DOMAIN objs |->
                   <<objs[i].name, [j \in DOMAIN objs[i].columns |-> objs[i].columns[j].name]>>])

\* catalog = {o['name']: [c['name'] for c in o['columns']] for o in tables + views}
catalog_of(all_objects) ==
    LET objs == all_objects.tables \o all_objects.views
    IN MakeDict([i \in DOMAIN objs |->
                   <<objs[i].name, [j \in DOMAIN objs[i].columns |-> objs[i].columns[j].name]>>])

\* An entry of the explicit lineage list is [kind, source_object, source_node,
\* source_column, target_object, target_node, target_column, edge_type]: kind
\* "dict" with a JSON scalar per key, or another JSON value (kind "str"), which
\* has no get(). Object names are JSON strings when present.
ExplicitRaises(e) ==
    \/ e.kind # "dict"
    \/ Get(e.source_column, JStr(<<>>)).type # "str"
    \/ Get(e.target_column, JStr(<<>>)).type # "str"

\* one element of the list comprehension over explicit
explicit_edge(e) ==
    [source_node |-> Get(e.source_object, Get(e.source_node, JStr(<<>>))).value,
     source_column |-> lower(Get(e.source_column, JStr(<<>>)).value),
     target_node |-> Get(e.target_object, Get(e.target_node, JStr(<<>>))).value,
     target_column |-> lower(Get(e.target_column, JStr(<<>>)).value),
     edge_type |-> Get(e.edge_type, JStr(S("direct"))).value]

\* what _run_lineage returns, with what it did on the way: has_graph and err are
\* the returned pair (result, err); catalog_obtained tells that the connector
\* returned a catalog; parse_calls lists the objects parser.parse was called for;
\* connector_calls counts the calls that read the catalog (get_all_objects or
\* _sqlite_get_all_objects)
Success(graph, warnings, calls) ==
    [has_graph |-> TRUE, graph |-> graph, warnings |-> warnings, err |-> <<>>,
     catalog_obtained |-> TRUE, parse_calls |-> calls, connector_calls |-> 1]

\* the return of the outer except with the message swallowed
FailureSilent(err, obtained) ==
    [has_graph |-> FALSE, graph |-> [nodes |-> <<>>, edges |-> <<>>], warnings |-> <<>>,
     err |-> <<>>, catalog_obtained |-> obtained, parse_calls |-> <<>>,
     connector_calls |-> 1]

\* return None, str(e) of the outer except, after the one call for the catalog
Failure(err, obtained) ==
    [has_graph |-> FALSE, graph |-> [nodes |-> <<>>, edges |-> <<>>], warnings |-> <<>>,
     err |-> err, catalog_obtained |-> obtained, parse_calls |-> <<>>,
     connector_calls |-> 1]

\* return None, f'Unknown connection...': no connector was called
Unknown(err) == [Failure(err, FALSE) EXCEPT !.connector_calls = 0]

\* the for loop without its try/except: the first object whose parse raises ends it
RECURSIVE RunLoopAbort(_, _, _, _)
RunLoopAbort(cat, objs, k, acc) ==
    IF k > Len(objs) THEN acc
    ELSE IF ~Truthy(objs[k].sql) THEN RunLoopAbort(cat, objs, k + 1, acc)
    ELSE IF objs[k].sql.type = "str"
    THEN RunLoopAbort(cat, objs, k + 1,
                      [acc EXCEPT !.all_edges = @ \o parse(cat, objs[k].name, objs[k].sql.value),
                                  !.calls = Append(@, objs[k].name)])
    ELSE [acc EXCEPT !.warnings = Append(@, objs[k].name \o S(": ") \o TypeErrorText),
                     !.calls = Append(@, objs[k].name)]

\* the for loop with an except that records nothing
RECURSIVE RunLoopSilent(_, _, _, _)
RunLoopSilent(cat, objs, k, acc) ==
    IF k > Len(objs) THEN acc
    ELSE IF ~Truthy(objs[k].sql) THEN RunLoopSilent(cat, objs, k + 1, acc)
    ELSE IF objs[k].sql.type = "str"
    THEN RunLoopSilent(cat, objs, k + 1,
                       [acc EXCEPT !.all_edges = @ \o parse(cat, objs[k].name, objs[k].sql.value),
                                   !.calls = Append(@, objs[k].name)])
    ELSE RunLoopSilent(cat, objs, k + 1, [acc EXCEPT !.calls = Append(@, objs[k].name)])

\* the for loop extending all_edges only by the edges it does not hold yet
RECURSIVE RunLoopDedup(_, _, _, _)
RunLoopDedup(cat, objs, k, acc) ==
    IF k > Len(objs) THEN acc
    ELSE IF ~Truthy(objs[k].sql) THEN RunLoopDedup(cat, objs, k + 1, acc)
    ELSE IF objs[k].sql.type = "str"
    THEN RunLoopDedup(cat, objs, k + 1,
                      [acc EXCEPT !.all_edges =
                                      @ \o SelectSeq(parse(cat, objs[k].name, objs[k].sql.value),
                                                     LAMBDA e : e \notin Range(acc.all_edges)),
                                  !.calls = Append(@, objs[k].name)])
    ELSE RunLoopDedup(cat, objs, k + 1,
                      [acc EXCEPT !.warnings = Append(@, objs[k].name \o S(": ") \o TypeErrorText),
                                  !.calls = Append(@, objs[k].name)])

\* the for loop with sql kept from the object before when an object has none
RECURSIVE RunLoopCarry(_, _, _, _)
RunLoopCarry(cat, objs, k, acc) ==
    IF k > Len(objs) THEN acc
    ELSE IF ~Truthy(objs[k].sql) /\ k > 1 /\ objs[k - 1].sql.type = "str"
    THEN RunLoopCarry(cat, objs, k + 1,
                      [acc EXCEPT !.all_edges = @ \o parse(cat, objs[k].name, objs[k - 1].sql.value),
                                  !.calls = Append(@, objs[k].name)])
    ELSE IF ~Truthy(objs[k].sql) THEN RunLoopCarry(cat, objs, k + 1, acc)
    ELSE IF objs[k].sql.type = "str"
    THEN RunLoopCarry(cat, objs, k + 1,
                      [acc EXCEPT !.all_edges = @ \o parse(cat, objs[k].name, objs[k].sql.value),
                                  !.calls = Append(@, objs[k].name)])
    ELSE RunLoopCarry(cat, objs, k + 1,
                      [acc EXCEPT !.warnings = Append(@, objs[k].name \o S(": ") \o TypeErrorText),
                                  !.calls = Append(@, objs[k].name)])

\* the for loop of _run_lineage over the objects from the k-th on; acc holds
\* all_edges, warnings and the parse calls made
RECURSIVE RunLoop(_, _, _, _)
RunLoop(cat, objs, k, acc) ==
    IF k > Len(objs) THEN acc
    ELSE LET obj == objs[k]
         IN IF ~Truthy(obj.sql) THEN RunLoop(cat, objs, k + 1, acc)
            ELSE IF obj.sql.type = "str"
            THEN RunLoop(cat, objs, k + 1,
                         [acc EXCEPT !.all_edges = @ \o parse(cat, obj.name, obj.sql.value),
                                     !.calls = Append(@, obj.name)])
            ELSE RunLoop(cat, objs, k + 1,
                         [acc EXCEPT !.warnings = Append(@, obj.name \o S(": ") \o TypeErrorText),
                                     !.calls = Append(@, obj.name)])

\* _run_lineage from the catalog dict on: the parsed run
RunResult(all_objects, acc) ==
    Success(build_graph(all_objects, acc.all_edges), acc.warnings, acc.calls)

parsed_run(all_objects) ==
    RunResult(all_objects,
              RunLoop(parser_catalog(catalog_of(all_objects)),
                      all_objects.views \o all_objects.stored_procedures, 1,
                      [all_edges |-> <<>>, warnings |-> <<>>, calls |-> <<>>]))

\* _run_lineage once the connector returned all_objects and the explicit list
RunWith(all_objects, explicit) ==
    IF ~all_objects.ok THEN Failure(all_objects.error, FALSE)
    ELSE IF explicit # <<>>
    THEN (IF \E i \in DOMAIN explicit : ExplicitRaises(explicit[i])
          THEN Failure(AttributeErrorText, TRUE)
          ELSE Success(build_graph(all_objects,
                                   [i \in DOMAIN explicit |-> explicit_edge(explicit[i])]),
                       <<>>, <<>>))
    ELSE parsed_run(all_objects)

\* the json branch of _run_lineage
json_run(data) == RunWith(json_get_all_objects(data), get_explicit_lineage(data))

\* _run_lineage(conn_id) for the registry conns; db is what the database of a
\* sqlite or sqlserver connection returns when it is read (ok FALSE: reading it
\* raises)
run_lineage(conns, conn_id, db) ==
    IF conn_id \notin DOMAIN conns THEN Unknown(S("Unknown connection: ") \o conn_id)
    ELSE IF conns[conn_id].type \in {"sqlite", "sqlserver"}
    THEN (IF db.ok THEN parsed_run(db) ELSE Failure(db.error, FALSE))
    ELSE IF conns[conn_id].type = "json" THEN json_run(conns[conn_id].connector)
    ELSE Unknown(S("Unknown connection type: ") \o S(conns[conn_id].type))

\* ------------------------------------------------------------------------
\* Inputs
\* ------------------------------------------------------------------------

MaxCols == 2
MaxCsvLen == 4

\* all sequences over set of length at most n
RECURSIVE SeqsUpTo(_, _)
SeqsUpTo(set, n) ==
    IF n = 0 THEN {<<>>}
    ELSE LET shorter == SeqsUpTo(set, n - 1)
         IN shorter \cup {Append(s, x) : s \in {q \in shorter : Len(q) = n - 1}, x \in set}

\* sep.join(parts)
RECURSIVE Join(_, _)
Join(parts, sep) ==
    IF parts = <<>> THEN <<>>
    ELSE IF Len(parts) = 1 THEN parts[1]
    ELSE parts[1] \o sep \o Join(Tail(parts), sep)

\* catalogs handed to LineageParser(catalog), as dict items
CatGrades == << <<S("employees"), <<S("employee_id"), S("salary")>> >>,
                <<S("jobs"), <<S("job_id"), S("min_salary"), S("max_salary")>> >> >>
CatHop == << <<S("T"), <<S("a"), S("b")>> >>, <<S("V1"), <<S("a")>> >> >>
CatT == << <<S("t"), <<S("x"), S("y")>> >> >>
CatUpper == << <<S("T"), <<S("X"), S("y")>> >> >>

SqlGrades == S("SELECT e.employee_id AS employee_id, ROUND((e.salary-j.min_salary)/(j.max_salary-j.min_salary)*100,1) AS pct FROM employees e JOIN jobs j ON e.job_id=j.job_id")

SqlHopV1 == S("SELECT a FROM T")
SqlHopV2 == S("SELECT a FROM V1")
SqlHopV1Qualified == S("SELECT T.a FROM T")
SqlHopV2Qualified == S("SELECT V1.a FROM V1")

SqlRound == S("SELECT ROUND(a.x, 2) AS y FROM t a")
SqlTrailingComma == S("SELECT e.x AS y,FROM t e")
SqlSelfJoin == S("SELECT a.x || b.x AS y FROM t a JOIN t b ON a.y = b.y")

ScenarioInputs ==
    {[catalog |-> CatGrades, target_name |-> S("v_grades"), sql_text |-> SqlGrades],
     [catalog |-> CatHop, target_name |-> S("V1"), sql_text |-> SqlHopV1],
     [catalog |-> CatHop, target_name |-> S("V2"), sql_text |-> SqlHopV2],
     [catalog |-> CatHop, target_name |-> S("V1"), sql_text |-> SqlHopV1Qualified],
     [catalog |-> CatHop, target_name |-> S("V2"), sql_text |-> SqlHopV2Qualified],
     [catalog |-> CatT, target_name |-> S("v"), sql_text |-> SqlRound],
     [catalog |-> CatT, target_name |-> S("v"), sql_text |-> SqlTrailingComma],
     [catalog |-> CatT, target_name |-> S("v"), sql_text |-> SqlSelfJoin]}

\* select-list items over the aliases e and b (table t) and u (unknown_tbl)
SelectItems ==
    {S("e.x"), S("e.x AS y"), S("b.x AS y"), S("e.x || b.x AS y"), S("SUM(e.y) AS s"),
     S("u.x AS z"), S("ROUND(e.y, 2) AS y"), S("*"), S("E.X AS Y"), S("u.x + e.x AS w")}

FromClauses ==
    {S(" FROM t e JOIN t b ON e.x = b.x"),
     S(" FROM t e JOIN unknown_tbl u ON e.x = u.x"),
     S(" FROM unknown_tbl u"),
     S("\nfrom T AS e, t b;")}

Prologues == {<<>>, S("CREATE VIEW v AS "), S("create or replace view v as\n")}

\* every list of at most MaxCols items with every FROM clause
ListInputs ==
    {[catalog |-> CatT, target_name |-> S("v"),
      sql_text |-> S("SELECT ") \o Join(items, S(", ")) \o from] :
        items \in SeqsUpTo(SelectItems, MaxCols) \ {<<>>}, from \in FromClauses}

\* every item alone, behind a CREATE VIEW prologue or over a catalog with names in
\* upper case
VariantInputs ==
    {[catalog |-> c, target_name |-> S("V"),
      sql_text |-> pro \o S("select ") \o item \o from] :
        c \in {CatT, CatUpper}, pro \in Prologues, item \in SelectItems, from \in FromClauses}

\* one expression per choice of an aggregate call, a CASE, a concatenation and a
\* computed call (<<>>: the expression has none)
AggregateCalls == {<<>>, S("COUNT(e.x)"), S("sum (e.x)"), S("Avg(e.x)"), S("MIN(e.x)"), S("max(e.x)")}
CaseExprs == {<<>>, S("CASE WHEN e.y > 0 THEN e.y END")}
ConcatExprs == {<<>>, S("e.x || e.y")}
ComputedCalls == {<<>>, S("ROUND(e.x, 1)"), S("coalesce(e.x, 0)"), S("Nvl(e.y, 0)"),
                  S("CAST(e.x AS INT)"), S("abs (e.y)")}

FeatureChoices ==
    {[agg |-> a, case |-> c, concat |-> k, computed |-> f] :
        a \in AggregateCalls, c \in CaseExprs, k \in ConcatExprs, f \in ComputedCalls}

NonEmpty(parts) == SelectSeq(parts, LAMBDA x : x # <<>>)

FeatureExpr(f) ==
    IF NonEmpty(<<f.case, f.computed, f.concat, f.agg>>) = <<>> THEN S("e.x")
    ELSE Join(NonEmpty(<<f.case, f.computed, f.concat, f.agg>>), S(" + "))

FeatureSql(f) == S("SELECT ") \o FeatureExpr(f) \o S(" AS out FROM t e")

FeatureInputs ==
    {[catalog |-> CatT, target_name |-> S("v"), sql_text |-> FeatureSql(f)] :
        f \in FeatureChoices}

\* texts without a SELECT ... FROM span
NoSpanTexts ==
    {<<>>, S("SELECT 1"), S("SELECT e.x AS y"), S("@@ not sql ((,"), S("FROM t e"),
     S("selected e.x fromage t e"), S("SELECT e.x AS y JOIN t e"), S("FROM t e SELECT e.x AS y"),
     S("CREATE VIEW v AS SELEC e.x FROM t e"), S("select e.x, (e.y from_t e")}

NoSpanInputs ==
    {[catalog |-> CatT, target_name |-> S("v"), sql_text |-> text] : text \in NoSpanTexts}

\* a first statement s1 and the statement s2 written behind its semicolon
FirstStatements ==
    {S("SELECT e.x AS y FROM t e"), S("SELECT e.x AS y FROM unknown_tbl u"),
     S("SELECT b.x AS y FROM t e"), S("SELECT 1"), S("SELECT e.x AS y FROM t e WHERE e.x > 0")}

SecondStatements ==
    {<<>>, S("SELECT 2"), S("SELECT 1 FROM t e"), S("SELECT b.y AS z FROM t b"),
     S("DELETE FROM t b")}

StatementInputs ==
    {[catalog |-> CatT, target_name |-> S("v"), sql_text |-> s1 \o S(";") \o s2] :
        s1 \in FirstStatements, s2 \in SecondStatements}

\* the table t after FROM or JOIN, written with or without an alias token
\* (alias: the name its columns are read through), and what follows it
TableRefs ==
    {[text |-> S("t"), alias |-> S("t")], [text |-> S("t e"), alias |-> S("e")],
     [text |-> S("T AS e"), alias |-> S("e")]}

Followers ==
    {<<>>, S("\n;"), S(", unknown_tbl u"), S(" WHERE 1 = 1"), S(" ON 1 = 1"), S(" GROUP BY 1"),
     S(" JOIN unknown_tbl u ON 1 = 1")}

Introducers == {S("FROM "), S("FROM unknown_tbl u JOIN ")}

\* SELECT <alias>.x AS y <FROM or JOIN> <table reference><what follows>
AliasText(intro, ref, follow) ==
    S("SELECT ") \o ref.alias \o S(".x AS y ") \o intro \o ref.text \o follow

AliasInputs ==
    {[catalog |-> CatT, target_name |-> S("v"), sql_text |-> AliasText(intro, ref, follow)] :
        intro \in Introducers, ref \in TableRefs, follow \in Followers}

ParseInputs ==
    ScenarioInputs \cup ListInputs \cup VariantInputs \cup FeatureInputs \cup NoSpanInputs
    \cup AliasInputs \cup StatementInputs

CsvAlphabet == {"(", ")", ",", "a"}

CsvTexts == SeqsUpTo(CsvAlphabet, MaxCsvLen) \cup {S("ROUND(a.x, 2) AS y")}

\* ---- JSON metadata documents ----

MaxViews == 2
MaxExplicitViews == 1

RawColumn(name) == [name |-> name, data_type |-> <<>>, is_pk |-> FALSE]

SqlGood == S("SELECT e.x AS a FROM emp e")
SqlHop == S("SELECT p.a AS a FROM v1 p")
SqlBody == S("SELECT e.y AS b FROM emp e WHERE e.x > 0")
SqlGarbage == S("@@ not sql ((,")
GarbageTexts == {SqlGarbage, S("SELECT FROM WHERE ;;")}
\* over the procedure p1 and a column emp does not have
SqlViaProc == S("SELECT q.b AS a, e.zz AS c FROM p1 q JOIN emp e ON e.x = q.b")
GoodTexts == {SqlGood, SqlHop, SqlBody}

\* the sql value of a view of the document
ViewSqlChoices ==
    {JStr(SqlGood), JStr(SqlHop), JStr(SqlViaProc), JStr(SqlGarbage), JInt(S("42")), JNull,
     JStr(<<>>)}

\* the k-th view of a document, named v<k>, declaring its column a
RawView(k, sql) == [name |-> S("v") \o Decimal(k), columns |-> <<RawColumn(S("a"))>>, sql |-> sql]

ViewLists == {[k \in 1..Len(sqls) |-> RawView(k, sqls[k])] : sqls \in SeqsUpTo(ViewSqlChoices, MaxViews)}

\* a stored procedure takes its columns from its body_sql (held in the field sql)
ProcedureLists ==
    {<<>>} \cup {<<[name |-> S("p1"), columns |-> <<>>, sql |-> JStr(body)]>> :
                    body \in {SqlBody, S("SELECT FROM WHERE ;;")}}

TableLists ==
    {<<[name |-> n, columns |-> <<RawColumn(S("x")), RawColumn(S("Y"))>>]>> :
        n \in {S("emp"), S("Emp")}}

NoEntry ==
    [kind |-> "dict", source_object |-> JAbsent, source_node |-> JAbsent,
     source_column |-> JAbsent, target_object |-> JAbsent, target_node |-> JAbsent,
     target_column |-> JAbsent, edge_type |-> JAbsent]

EntryDirect ==
    [NoEntry EXCEPT !.source_object = JStr(S("emp")), !.source_column = JStr(S("x")),
                    !.target_object = JStr(S("v1")), !.target_column = JStr(S("a")),
                    !.edge_type = JStr(S("direct"))]
EntryNodeKeys ==
    [NoEntry EXCEPT !.source_node = JStr(S("Emp")), !.source_column = JStr(S("Y")),
                    !.target_node = JStr(S("V9")), !.target_column = JStr(S("Total"))]
EntryNullColumn ==
    [NoEntry EXCEPT !.source_object = JStr(S("emp")), !.source_column = JNull,
                    !.target_object = JStr(S("v1")), !.target_column = JStr(S("a"))]
EntryNotADict == [NoEntry EXCEPT !.kind = "str"]
\* an entry whose source is no object of any document
EntryGhost ==
    [NoEntry EXCEPT !.source_object = JStr(S("legacy_feed")), !.source_column = JStr(S("amount")),
                    !.target_object = JStr(S("v1")), !.target_column = JStr(S("a"))]

LineageLists ==
    {<<>>, <<EntryDirect>>, <<EntryNodeKeys, EntryDirect>>, <<EntryDirect, EntryNullColumn>>,
     <<EntryNotADict>>, <<EntryGhost>>}

\* a view without declared columns whose sql is no text: get_all_objects raises
DocNoCatalog ==
    [tables |-> <<>>,
     views |-> <<[name |-> S("v1"), columns |-> <<>>, sql |-> JInt(S("42"))]>>,
     stored_procedures |-> <<>>, lineage |-> <<EntryDirect>>]

\* the tables employees and jobs with the view v_grades over them
DocGrades ==
    [tables |-> <<[name |-> S("employees"),
                   columns |-> <<RawColumn(S("employee_id")), RawColumn(S("salary"))>>],
                  [name |-> S("jobs"),
                   columns |-> <<RawColumn(S("job_id")), RawColumn(S("min_salary")),
                                 RawColumn(S("max_salary"))>>]>>,
     views |-> <<[name |-> S("v_grades"), columns |-> <<>>,
                  sql |-> JStr(S("CREATE VIEW v_grades AS ") \o SqlGrades)]>>,
     stored_procedures |-> <<>>, lineage |-> <<>>]

\* two views of one name and one text
DocTwins ==
    [tables |-> <<[name |-> S("emp"), columns |-> <<RawColumn(S("x")), RawColumn(S("Y"))>>]>>,
     views |-> <<RawView(1, JStr(SqlGood)), RawView(1, JStr(SqlGood))>>,
     stored_procedures |-> <<>>, lineage |-> <<>>]

\* names in upper case
DocUpper ==
    [tables |-> <<[name |-> S("Emp"), columns |-> <<RawColumn(S("X")), RawColumn(S("Y"))>>]>>,
     views |-> <<[name |-> S("V1"), columns |-> <<RawColumn(S("A"))>>, sql |-> JStr(SqlGood)]>>,
     stored_procedures |-> <<>>, lineage |-> <<>>]

\* a view without the key sql, a procedure without the key body_sql
DocNoSqlKey ==
    [tables |-> <<[name |-> S("emp"), columns |-> <<RawColumn(S("x")), RawColumn(S("Y"))>>]>>,
     views |-> <<RawView(1, JAbsent), RawView(2, JStr(SqlGood))>>,
     stored_procedures |-> <<[name |-> S("p1"), columns |-> <<>>, sql |-> JAbsent]>>,
     lineage |-> <<>>]

\* the documents without explicit lineage: every list of views
ParsedDocs ==
    {[tables |-> ts, views |-> vs, stored_procedures |-> ps, lineage |-> <<>>] :
        ts \in TableLists, vs \in ViewLists, ps \in ProcedureLists}

\* the documents with explicit lineage: at most MaxExplicitViews views
ExplicitDocs ==
    {[tables |-> ts, views |-> vs, stored_procedures |-> ps, lineage |-> ls] :
        ts \in TableLists, vs \in {v \in ViewLists : Len(v) <= MaxExplicitViews},
        ps \in ProcedureLists, ls \in LineageLists \ {<<>>}}

Docs ==
    ParsedDocs \cup ExplicitDocs
    \cup {DocNoCatalog, DocGrades, DocTwins, DocUpper, DocNoSqlKey}

\* what reading the database of the hr connection gives
DbReadable ==
    [ok |-> TRUE, error |-> <<>>,
     tables |-> <<[name |-> S("emp"), type |-> "table",
                   columns |-> <<Column(S("x")), Column(S("y"))>>, sql |-> JNull]>>,
     views |-> <<[name |-> S("v1"), type |-> "view", columns |-> <<Column(S("a"))>>,
                  sql |-> JStr(S("CREATE VIEW v1 AS ") \o SqlGood)]>>,
     stored_procedures |-> <<>>]
DbUnreadable ==
    [ok |-> FALSE, error |-> S("unable to open database file"),
     tables |-> <<>>, views |-> <<>>, stored_procedures |-> <<>>]
DbOutcomes == {DbReadable, DbUnreadable}

JsonId == S("json_1")

\* ------------------------------------------------------------------------
\* State
\* ------------------------------------------------------------------------

VARIABLES
    parser,       \* the LineageParser under test: its constructor argument and self.catalog
    call,         \* the last parser.parse call: arguments, locals and returned edges;
                  \* repeated when it was the second call with these arguments, and
                  \* previous holds the edges the call before it returned
    csv,          \* the last _split_csv call: argument and returned parts
    CONNECTIONS,  \* the connection registry: conn_id -> conf
    lineage,      \* the last _run_lineage call: the endpoint it was made for, conn_id,
                  \* what reading the database gave (db, for a sqlite connection) and
                  \* what it returned
    clock,        \* int(time.time()), counted from the start of the server
    handlers,     \* the add_connection and upload_json calls in progress: a handler
                  \* at "store" has computed its cid and has not yet written it
    response      \* the last response of /api/connect or /api/upload-json, n-th of all

web == <<clock, handlers, response>>

vars == <<parser, call, csv, CONNECTIONS, lineage, clock, handlers, response>>

NoParser == [constructed |-> FALSE, input |-> <<>>, catalog |-> <<>>]
NoCall == [made |-> FALSE, repeated |-> FALSE, previous |-> <<>>,
           target_name |-> <<>>, sql_text |-> <<>>, sql |-> <<>>,
           alias_map |-> <<>>, columns |-> <<>>, edges |-> <<>>]
NoCsv == [made |-> FALSE, text |-> <<>>, parts |-> <<>>]
NoLineage ==
    [made |-> FALSE, endpoint |-> "none", conn_id |-> <<>>, db |-> DbUnreadable,
     ret |-> Unknown(<<>>)]

MaxHandlers == 2
MaxRequests == 2
MaxClock == 2

NoConf == [type |-> "none", label |-> <<>>, path |-> <<>>, connector |-> <<>>]
Idle == [pc |-> "idle", endpoint |-> "none", test_only |-> FALSE, cid |-> <<>>, conf |-> NoConf]
NoResponse ==
    [n |-> 0, endpoint |-> "none", status |-> 0, test_only |-> FALSE, registered |-> <<>>]

\* no request to /api/connect or /api/upload-json has been made
WebIdle ==
    /\ clock = 1
    /\ handlers = [h \in 1..MaxHandlers |-> Idle]
    /\ response = NoResponse

\* CONNECTIONS as the module is loaded (DB_PATH is hr.db beside app.py)
InitialConnections ==
    [id \in {S("hr")} |->
        [type |-> "sqlite", label |-> S("HR Domain (SQLite)"), path |-> S("hr.db"),
         connector |-> <<>>]]

\* ------------------------------------------------------------------------
\* The parser on its own
\* ------------------------------------------------------------------------

\* parser = LineageParser(catalog), then the text to parse is at hand
ParserInit ==
    /\ \E in \in ParseInputs :
          parser = [constructed |-> TRUE, input |-> in, catalog |-> parser_catalog(in.catalog)]
    /\ call = NoCall
    /\ csv = NoCsv
    /\ CONNECTIONS = InitialConnections
    /\ lineage = NoLineage
    /\ WebIdle

\* a text _split_csv is to be called on
CsvInit ==
    /\ parser = NoParser
    /\ call = NoCall
    /\ \E text \in CsvTexts : csv = [made |-> FALSE, text |-> text, parts |-> <<>>]
    /\ CONNECTIONS = InitialConnections
    /\ lineage = NoLineage
    /\ WebIdle

\* the record of a parser.parse call returning the locals r
CallRecord(r, edges) ==
    [made |-> TRUE,
     repeated |-> call.made,
     previous |-> call.edges,
     target_name |-> parser.input.target_name,
     sql_text |-> parser.input.sql_text,
     sql |-> r.sql,
     alias_map |-> r.alias_map,
     columns |-> r.columns,
     edges |-> edges]

\* parse with seen kept on the parser between calls instead of being a local
ParseKeepingSeen ==
    /\ parser.constructed
    /\ ~call.repeated
    /\ \E r \in {parse_locals(parser.catalog, parser.input.target_name, parser.input.sql_text)} :
          /\ call' = CallRecord(r, SelectSeq(r.edges, LAMBDA e : e \notin Range(call.edges)))
          /\ \E m \in {select_list(r.sql)} :
                csv' = IF m.matched
                       THEN [made |-> TRUE, text |-> m.group1, parts |-> split_csv(m.group1)]
                       ELSE csv
    /\ UNCHANGED <<parser, CONNECTIONS, lineage, web>>

\* parser.parse(target_name, sql_text), called a first and then a second time on
\* the same parser; csv records the _split_csv call _extract_columns makes, if it
\* makes one
Parse ==
    /\ parser.constructed
    /\ ~call.repeated
    /\ \E r \in {parse_locals(parser.catalog, parser.input.target_name, parser.input.sql_text)} :
          /\ call' = CallRecord(r, r.edges)
          /\ \E m \in {select_list(r.sql)} :
                csv' = IF m.matched
                       THEN [made |-> TRUE, text |-> m.group1, parts |-> split_csv(m.group1)]
                       ELSE csv
    /\ UNCHANGED <<parser, CONNECTIONS, lineage, web>>

\* _split_csv(text)
SplitCsv ==
    /\ ~parser.constructed
    /\ ~csv.made
    /\ csv' = [made |-> TRUE, text |-> csv.text, parts |-> split_csv(csv.text)]
    /\ UNCHANGED <<parser, call, CONNECTIONS, lineage, web>>

ParserNext == Parse \/ SplitCsv

SpecParser == (ParserInit \/ CsvInit) /\ [][ParserNext]_vars

\* ------------------------------------------------------------------------
\* Properties of the parser
\* ------------------------------------------------------------------------

Edge(source_node, source_column, target_node, target_column, edge_type) ==
    [source_node |-> S(source_node), source_column |-> S(source_column),
     target_node |-> S(target_node), target_column |-> S(target_column),
     edge_type |-> S(edge_type)]

\* the call parse(target_name, sql_text) was made on a parser built from catalog
Called(catalog, target_name, sql_text) ==
    /\ call.made
    /\ parser.input.catalog = catalog
    /\ call.target_name = target_name
    /\ call.sql_text = sql_text

GradesEdges ==
    <<Edge("employees", "employee_id", "v_grades", "employee_id", "direct"),
      Edge("employees", "salary", "v_grades", "pct", "computed"),
      Edge("jobs", "min_salary", "v_grades", "pct", "computed"),
      Edge("jobs", "max_salary", "v_grades", "pct", "computed")>>

\* C1: over the index employees(employee_id, salary), jobs(job_id, min_salary,
\* max_salary), parse('v_grades', <the v_grades SELECT>) returns exactly the four
\* edges employees.employee_id -> employee_id (direct) and employees.salary,
\* jobs.min_salary, jobs.max_salary -> pct (computed), in this order.
C1_GradesExample ==
    Called(CatGrades, S("v_grades"), SqlGrades) => call.edges = GradesEdges

C1_Witness ==
    Called(CatGrades, S("v_grades"), SqlGrades) /\ Len(call.edges) = 4

\* an edge of the last call from source.column to target.column, the object
\* names compared without regard to case
HasEdge(source, source_column, target, target_column) ==
    \E i \in DOMAIN call.edges :
        /\ lower(call.edges[i].source_node) = lower(S(source))
        /\ call.edges[i].source_column = S(source_column)
        /\ lower(call.edges[i].target_node) = lower(S(target))
        /\ call.edges[i].target_column = S(target_column)

\* C6 as stated: with T(a,b) and V1(a) in the index, parsing V2 = 'SELECT a FROM V1'
\* yields V1.a -> V2.a and not T.a -> V2.a, and parsing V1 = 'SELECT a FROM T'
\* yields T.a -> V1.a.
C6_MultiHopUnqualified ==
    /\ Called(CatHop, S("V2"), SqlHopV2) =>
          HasEdge("V1", "a", "V2", "a") /\ ~HasEdge("T", "a", "V2", "a")
    /\ Called(CatHop, S("V1"), SqlHopV1) => HasEdge("T", "a", "V1", "a")

\* C6, amended: the select lists of C6 hold no qualified reference, so both calls
\* return no edge. With the references qualified, parsing V2 = 'SELECT V1.a FROM V1'
\* returns exactly v1.a -> V2.a (the source named by its lower-cased index key), no
\* edge from T, and parsing V1 = 'SELECT T.a FROM T' returns exactly t.a -> V1.a.
C6_MultiHopQualified ==
    /\ Called(CatHop, S("V2"), SqlHopV2Qualified) =>
          call.edges = <<Edge("v1", "a", "V2", "a", "direct")>>
    /\ Called(CatHop, S("V1"), SqlHopV1Qualified) =>
          call.edges = <<Edge("t", "a", "V1", "a", "direct")>>
    /\ Called(CatHop, S("V2"), SqlHopV2) => call.edges = <<>>
    /\ Called(CatHop, S("V1"), SqlHopV1) => call.edges = <<>>

C6_Witness ==
    Called(CatHop, S("V2"), SqlHopV2Qualified) /\ Len(call.edges) = 1

\* the edge_type the precedence gives an expression built from the choices f
ExpectedType(f) ==
    IF f.agg # <<>> THEN S("aggregate")
    ELSE IF f.case # <<>> THEN S("case")
    ELSE IF f.concat # <<>> THEN S("concat")
    ELSE IF f.computed # <<>> THEN S("computed")
    ELSE S("direct")

\* C7: an output expression gets the first matching type in the order aggregate,
\* case, concat, computed, direct (an aggregate call together with CASE is
\* aggregate), and every edge of an output column carries the type of a column
\* of that name.
C7_Precedence ==
    call.made =>
        /\ \A f \in FeatureChoices :
              call.sql_text = FeatureSql(f) =>
                  /\ call.edges # <<>>
                  /\ \A i \in DOMAIN call.edges : call.edges[i].edge_type = ExpectedType(f)
        /\ \A i \in DOMAIN call.edges :
              \E k \in DOMAIN call.columns :
                  /\ call.columns[k].alias = call.edges[i].target_column
                  /\ call.columns[k].type = call.edges[i].edge_type

C7_Witness ==
    /\ call.made
    /\ call.sql_text = FeatureSql([agg |-> S("sum (e.x)"), case |-> S("CASE WHEN e.y > 0 THEN e.y END"),
                                   concat |-> <<>>, computed |-> <<>>])
    /\ call.edges # <<>>
    /\ \A i \in DOMAIN call.edges : call.edges[i].edge_type = S("aggregate")

\* the text of the call introduces the alias u for unknown_tbl, a table the index
\* does not hold (no input introduces u for another table)
IntroducesUnknown ==
    /\ call.made
    /\ Contains(call.sql_text, S("unknown_tbl u"))
    /\ S("unknown_tbl") \notin DOMAIN parser.catalog

\* every qualified reference of the column is u.<col>
OnlyViaUnknown(c) ==
    c.refs # <<>> /\ \A i \in DOMAIN c.refs : lower(c.refs[i][1]) = S("u")

\* C8: when alias u is introduced for a table that is not in the index, an output
\* column whose qualified references are all u.<col> yields no edge, and
\* unknown_tbl is the source_node of no edge.
C8_UnknownTableIgnored ==
    IntroducesUnknown =>
        /\ \A k \in DOMAIN call.columns :
              (\A j \in DOMAIN call.columns :
                  call.columns[j].alias = call.columns[k].alias
                      => OnlyViaUnknown(call.columns[j]))
              => \A i \in DOMAIN call.edges :
                    call.edges[i].target_column # call.columns[k].alias
        /\ \A i \in DOMAIN call.edges : call.edges[i].source_node # S("unknown_tbl")

C8_Witness ==
    /\ IntroducesUnknown
    /\ \E k \in DOMAIN call.columns : OnlyViaUnknown(call.columns[k])
    /\ call.edges # <<>>

\* '(' minus ')' among the first j characters
Balance(text, j) ==
    Cardinality({i \in 1..j : text[i] = "("}) - Cardinality({i \in 1..j : text[i] = ")"})

\* the parenthesis depth behind the first j characters, for a depth that does
\* not fall below 0
DepthAfter(text, j) == Balance(text, j) - Min({Balance(text, i) : i \in 0..j})

TopCommas(text) == {j \in 1..Len(text) : text[j] = "," /\ DepthAfter(text, j - 1) = 0}

\* the k-th depth-0 comma; 0 for k = 0 and the position behind the text for a k
\* beyond the last one
Cut(text, k) ==
    IF k = 0 THEN 0
    ELSE IF k <= Cardinality(TopCommas(text))
    THEN CHOOSE x \in TopCommas(text) : Cardinality({y \in TopCommas(text) : y < x}) = k - 1
    ELSE Len(text) + 1

\* the text cut at its depth-0 commas; what follows the last comma is a part
\* only if it is not empty
ExpectedParts(text) ==
    [k \in 1..(Cardinality(TopCommas(text))
               + (IF Len(text) = 0 \/ Len(text) \in TopCommas(text) THEN 0 ELSE 1)) |->
        SubSeq(text, Cut(text, k - 1) + 1, Cut(text, k) - 1)]

\* C9 as stated: 'ROUND(a.x, 2) AS y' is one part and one output column named y,
\* and joining the returned parts with ',' gives back the list.
C9_JoinRoundTrip ==
    /\ csv.made => Join(csv.parts, S(",")) = csv.text
    /\ csv.made /\ csv.text = S("ROUND(a.x, 2) AS y") => Len(csv.parts) = 1
    /\ Called(CatT, S("v"), SqlRound) =>
          Len(call.columns) = 1 /\ call.columns[1].alias = S("y")

\* C9, amended: _split_csv cuts the list at its commas of parenthesis depth 0 and
\* nowhere else, so 'ROUND(a.x, 2) AS y' is one part and one output column named
\* y; joining the parts with ',' gives back the list, except that a list ending in
\* a depth-0 comma loses that comma (no empty part follows it).
C9_TopLevelSplit ==
    /\ csv.made =>
          /\ csv.parts = ExpectedParts(csv.text)
          /\ Join(csv.parts, S(",")) =
                IF Len(csv.text) \in TopCommas(csv.text)
                THEN SubSeq(csv.text, 1, Len(csv.text) - 1)
                ELSE csv.text
    /\ csv.made /\ csv.text = S("ROUND(a.x, 2) AS y") => Len(csv.parts) = 1
    /\ Called(CatT, S("v"), SqlRound) =>
          Len(call.columns) = 1 /\ call.columns[1].alias = S("y")

C9_Witness ==
    /\ csv.made
    /\ csv.text = S("ROUND(a.x, 2) AS y")
    /\ csv.parts = <<S("ROUND(a.x, 2) AS y")>>

\* C10: the edges parse returns hold no two edges with the same (source_node,
\* source_column, target_node, target_column); a self-join whose two aliases feed
\* the same column into one output alias yields exactly one edge.
C10_NoDuplicateEdges ==
    call.made =>
        /\ \A i, j \in DOMAIN call.edges :
              /\ call.edges[i].source_node = call.edges[j].source_node
              /\ call.edges[i].source_column = call.edges[j].source_column
              /\ call.edges[i].target_node = call.edges[j].target_node
              /\ call.edges[i].target_column = call.edges[j].target_column
              => i = j
        /\ call.sql_text \in {SqlSelfJoin, S("SELECT e.x AS y, b.x AS y FROM t e JOIN t b ON e.x = b.x")}
              => Len(call.edges) = 1

C10_Witness ==
    /\ Called(CatT, S("v"), S("SELECT e.x AS y, b.x AS y FROM t e JOIN t b ON e.x = b.x"))
    /\ Len(call.columns) = 2
    /\ call.edges = <<Edge("t", "x", "v", "y", "direct")>>

WordAt(text, p, w) ==
    /\ p + Len(w) - 1 <= Len(text)
    /\ p = 1 \/ ~IsWord(text[p - 1])
    /\ p + Len(w) > Len(text) \/ ~IsWord(text[p + Len(w)])
    /\ \A k \in 1..Len(w) : text[p + k - 1] \in {w[k], LowerChar(w[k])}

\* the text holds the word SELECT and, somewhere behind it, the word FROM
HasSpan(text) ==
    \E p \in 1..Len(text) :
        /\ WordAt(text, p, S("SELECT"))
        /\ \E q \in (p + 6)..Len(text) : WordAt(text, q, S("FROM"))

EdgeTypes == {S("direct"), S("aggregate"), S("case"), S("concat"), S("computed")}

\* C19: for every text, a parse call returns a list of edges into the target it
\* was called for; when the text holds no SELECT ... FROM span the list is
\* empty.
C19_Total ==
    call.made =>
        /\ \A i \in DOMAIN call.edges :
              /\ call.edges[i].target_node = call.target_name
              /\ call.edges[i].edge_type \in EdgeTypes
        /\ ~HasSpan(call.sql_text) => call.edges = <<>>

\* a SELECT without FROM, over an alias the text introduces by JOIN, was parsed:
\* the alias map knows e, and there is no edge
C19_Witness ==
    /\ Called(CatT, S("v"), S("SELECT e.x AS y JOIN t e"))
    /\ ~HasSpan(call.sql_text)
    /\ S("e") \in DOMAIN call.alias_map
    /\ call.edges = <<>>

\* the case of AliasInputs the call was made for, if any
AliasCases ==
    {[intro |-> intro, ref |-> ref, follow |-> follow] :
        intro \in Introducers, ref \in TableRefs, follow \in Followers}

\* C20 as stated: for FROM t or JOIN t over the indexed table t, the alias map
\* maps the alias token to t when one is written and t's own name to t when
\* none is, whatever follows (end of text, a comma, WHERE, ON, GROUP or a
\* further JOIN), and the reference through it gives the edge t.x -> v.y.
C20_AliasMap ==
    \A c \in AliasCases :
        Called(CatT, S("v"), AliasText(c.intro, c.ref, c.follow)) =>
            /\ c.ref.alias \in DOMAIN call.alias_map
            /\ call.alias_map[c.ref.alias] = S("t")
            /\ HasEdge("t", "x", "v", "y")

\* C21 as stated: parse(target, s1 + ';' + s2) returns the edges of
\* parse(target, s1), and its alias map is the one of s1: nothing behind the
\* first statement's semicolon has an influence.
C21_FirstStatementOnly ==
    \A s1 \in FirstStatements, s2 \in SecondStatements :
        Called(CatT, S("v"), s1 \o S(";") \o s2) =>
            /\ call.edges = parse(parser.catalog, S("v"), s1)
            /\ call.alias_map = build_alias_map(parser.catalog, normalize(s1))

\* the expressions of the SELECT list of the call: the top-level parts, without
\* the white space around them, the empty ones left out
NamedParts == SelectSeq([k \in DOMAIN csv.parts |-> strip(csv.parts[k])], LAMBDA p : p # <<>>)

\* where the run of word characters that ends the expression p starts
\* (Len(p) + 1 when p does not end with a word character)
LastRunStart(p) == Min({j \in 1..(Len(p) + 1) : \A k \in j..Len(p) : IsWord(p[k])})

\* the expression p ends with AS, white space and an identifier, AS standing at i
TrailingAsAt(p, i) ==
    /\ i = 1 \/ ~IsWord(p[i - 1])
    /\ i + 2 < LastRunStart(p)
    /\ LastRunStart(p) <= Len(p)
    /\ p[i] \in {"A", "a"}
    /\ p[i + 1] \in {"S", "s"}
    /\ \A k \in (i + 2)..(LastRunStart(p) - 1) : IsSpace(p[k])

\* the last identifier token of the expression p, which has one
LastIdentifier(p) ==
    SubSeq(p, Min({j \in 1..Len(p) : \A k \in j..Max({e \in 1..Len(p) : IsWord(p[e])}) : IsWord(p[k])}),
           Max({e \in 1..Len(p) : IsWord(p[e])}))

\* the output column the expression p is named by
ExpectedName(p) ==
    IF \E i \in 1..Len(p) : TrailingAsAt(p, i) THEN lower(SubSeq(p, LastRunStart(p), Len(p)))
    ELSE IF \E j \in 1..Len(p) : IsWord(p[j]) THEN lower(LastIdentifier(p))
    ELSE S("unknown")

Registry(doc) ==
    [id \in {S("hr"), JsonId} |->
        IF id = JsonId
        THEN [type |-> "json", label |-> S("JSON Metadata"), path |-> <<>>, connector |-> doc]
        ELSE InitialConnections[id]]

Init ==
    /\ parser = NoParser
    /\ call = NoCall
    /\ csv = NoCsv
    /\ \E doc \in Docs : CONNECTIONS = Registry(doc)
    /\ lineage = NoLineage
    /\ WebIdle

\* get_lineage: _run_lineage(conn_id) for the db argument of the request
GetLineage(conn_id) ==
    /\ ~lineage.made
    /\ \E db \in IF conn_id \in DOMAIN CONNECTIONS /\ CONNECTIONS[conn_id].type = "sqlite"
                 THEN DbOutcomes ELSE {DbUnreadable} :
          lineage' = [made |-> TRUE, endpoint |-> "lineage", conn_id |-> conn_id, db |-> db,
                      ret |-> run_lineage(CONNECTIONS, conn_id, db)]
    /\ UNCHANGED <<parser, call, csv, CONNECTIONS, web>>

RequestIds == {S("hr"), JsonId, S("nope")}

Next == \E conn_id \in RequestIds : GetLineage(conn_id)

Spec == Init /\ [][Next]_vars

\* ------------------------------------------------------------------------
\* Properties of a lineage request
\* ------------------------------------------------------------------------

\* the request was for the uploaded document
JsonRun == lineage.made /\ lineage.conn_id = JsonId

RunDoc == CONNECTIONS[JsonId].connector

\* the views and procedures of the document, in the order the run takes them
Derived(doc) == doc.views \o doc.stored_procedures

\* the edges the SQL text of the derived object o stands for, over the table emp
\* (x, y) and the view v1 (a) of every document
ExpectedEdges(o) ==
    IF o.sql = JStr(SqlGood)
    THEN <<[source_node |-> S("emp"), source_column |-> S("x"), target_node |-> o.name,
            target_column |-> S("a"), edge_type |-> S("direct")]>>
    ELSE IF o.sql = JStr(SqlHop)
    THEN <<[source_node |-> S("v1"), source_column |-> S("a"), target_node |-> o.name,
            target_column |-> S("a"), edge_type |-> S("direct")]>>
    ELSE IF o.sql = JStr(SqlBody)
    THEN <<[source_node |-> S("emp"), source_column |-> S("y"), target_node |-> o.name,
            target_column |-> S("b"), edge_type |-> S("direct")]>>
    ELSE <<>>

\* the graph edge g is the edge e, whatever its id
SameEdge(g, e) ==
    /\ g.source_node = e.source_node
    /\ g.source_column = e.source_column
    /\ g.target_node = e.target_node
    /\ g.target_column = e.target_column
    /\ g.edge_type = e.edge_type

\* the graph edges are the edges es, in their order
EdgesAre(es) ==
    /\ Len(lineage.ret.graph.edges) = Len(es)
    /\ \A i \in DOMAIN es : SameEdge(lineage.ret.graph.edges[i], es[i])

\* the value an entry gives under the key, or under the other key, or ''
EntryValue(first, second) ==
    IF first.type # "absent" THEN first.value
    ELSE IF second.type # "absent" THEN second.value
    ELSE <<>>

\* the graph edge g is the entry e of the explicit list
FromEntry(g, e) ==
    /\ e.kind = "dict"
    /\ g.source_node = EntryValue(e.source_object, e.source_node)
    /\ g.source_column = lower(EntryValue(e.source_column, JStr(<<>>)))
    /\ g.target_node = EntryValue(e.target_object, e.target_node)
    /\ g.target_column = lower(EntryValue(e.target_column, JStr(<<>>)))
    /\ g.edge_type = EntryValue(e.edge_type, JStr(S("direct")))

\* C2: whenever the connector gives a non-empty explicit list, the graph edges
\* are that list, entry by entry and in its order, the warnings are empty and
\* the parser is called for no view or procedure.
C2_ExplicitBypass ==
    JsonRun /\ lineage.ret.catalog_obtained /\ RunDoc.lineage # <<>> =>
        /\ lineage.ret.has_graph
        /\ Len(lineage.ret.graph.edges) = Len(RunDoc.lineage)
        /\ \A i \in DOMAIN RunDoc.lineage :
              FromEntry(lineage.ret.graph.edges[i], RunDoc.lineage[i])
        /\ lineage.ret.warnings = <<>>
        /\ lineage.ret.parse_calls = <<>>

\* C3: when the document holds SQL text for its views or procedures and a
\* non-empty lineage list, the graph holds every explicit edge and every edge
\* the SQL text stands for.
C3_Merge ==
    JsonRun /\ lineage.ret.has_graph /\ RunDoc.lineage # <<>> =>
        /\ \A i \in DOMAIN RunDoc.lineage :
              \E g \in Range(lineage.ret.graph.edges) : FromEntry(g, RunDoc.lineage[i])
        /\ \A k \in DOMAIN Derived(RunDoc) :
              \A e \in Range(ExpectedEdges(Derived(RunDoc)[k])) :
                  \E g \in Range(lineage.ret.graph.edges) : SameEdge(g, e)

\* C5: once get_all_objects has returned the catalog, the run returns a graph
\* and warnings and no failure.
C5_AlwaysGraph ==
    lineage.made /\ lineage.ret.catalog_obtained =>
        lineage.ret.has_graph /\ lineage.ret.err = <<>>

\* a run over three derived objects without explicit lineage, the first and the
\* third with well-formed SQL text
ThreeDerived ==
    /\ JsonRun
    /\ RunDoc.lineage = <<>>
    /\ Len(Derived(RunDoc)) = 3
    /\ Derived(RunDoc)[1].sql \in {JStr(g) : g \in GoodTexts}
    /\ Derived(RunDoc)[3].sql \in {JStr(g) : g \in GoodTexts}

SecondIsGarbage == Derived(RunDoc)[2].sql \in {JStr(g) : g \in GarbageTexts}

SecondIsNoText == Derived(RunDoc)[2].sql.type = "int" /\ Truthy(Derived(RunDoc)[2].sql)

FirstAndThird == ExpectedEdges(Derived(RunDoc)[1]) \o ExpectedEdges(Derived(RunDoc)[3])

\* the only warning starts with the name of the second object
OneWarningNamesSecond ==
    /\ Len(lineage.ret.warnings) = 1
    /\ SubSeq(lineage.ret.warnings[1], 1, Len(Derived(RunDoc)[2].name) + 1)
          = Derived(RunDoc)[2].name \o S(":")

RunSource == IF lineage.conn_id = JsonId THEN RunDoc ELSE lineage.db

\* the run returned a graph and had no explicit lineage to take its edges from
ParsedRun ==
    /\ lineage.made
    /\ lineage.ret.has_graph
    /\ lineage.conn_id = JsonId => RunDoc.lineage = <<>>

\* the view or procedure o has no SQL: the key is absent, null or the empty text
WithoutSql(o) == o.sql \in {JAbsent, JNull, JStr(<<>>)}

\* C12: in a run without explicit lineage, a view or procedure whose SQL is
\* absent or empty is the target of no edge of the graph, whatever the other
\* objects of the catalog contain.
C12_NoSqlNoEdges ==
    ParsedRun =>
        \A i \in DOMAIN Derived(RunSource) :
            WithoutSql(Derived(RunSource)[i]) =>
                \A j \in DOMAIN lineage.ret.graph.edges :
                    lineage.ret.graph.edges[j].target_node # Derived(RunSource)[i].name

\* a view without SQL stands before a view whose text gives an edge
C12_Witness ==
    /\ ParsedRun
    /\ Len(RunSource.views) = 2
    /\ WithoutSql(RunSource.views[1])
    /\ RunSource.views[2].sql = JStr(SqlGood)
    /\ Len(lineage.ret.graph.edges) >= 1
    /\ \A j \in DOMAIN lineage.ret.graph.edges :
          lineage.ret.graph.edges[j].target_node # RunSource.views[1].name

\* the edges the SQL of the derived object o stands for, for every text a
\* document or the hr database holds
ExpectedOf(o) ==
    IF o.sql = JStr(S("CREATE VIEW v_grades AS ") \o SqlGrades) THEN GradesEdges
    ELSE IF o.sql = JStr(S("CREATE VIEW v1 AS ") \o SqlGood)
    THEN ExpectedEdges([o EXCEPT !.sql = JStr(SqlGood)])
    ELSE ExpectedEdges(o)

\* the expected edges of the objects from the k-th on, one list after the other
RECURSIVE ExpectedFrom(_, _)
ExpectedFrom(objs, k) ==
    IF k > Len(objs) THEN <<>> ELSE ExpectedOf(objs[k]) \o ExpectedFrom(objs, k + 1)

\* the ids of the first edges of a graph
EdgeIds ==
    <<S("e0"), S("e1"), S("e2"), S("e3"), S("e4"), S("e5"), S("e6"), S("e7"), S("e8"), S("e9"),
      S("e10"), S("e11")>>

\* C13: in a run without explicit lineage the graph edges are the edges of each
\* view in catalog order, then of each procedure in catalog order, each
\* object's edges in the order its text gives them, nothing dropped across
\* objects, and the i-th edge (from 0) has the id "e<i>".
C13_EdgeOrder ==
    ParsedRun =>
        /\ EdgesAre(ExpectedFrom(RunSource.views \o RunSource.stored_procedures, 1))
        /\ \A i \in DOMAIN lineage.ret.graph.edges : lineage.ret.graph.edges[i].id = EdgeIds[i]

\* two views and a procedure give one edge each: e0, e1 and e2, in this order
C13_Witness ==
    /\ ParsedRun
    /\ Len(RunSource.views) = 2
    /\ RunSource.views[1].sql = JStr(SqlGood)
    /\ RunSource.views[2].sql = JStr(SqlHop)
    /\ Len(RunSource.stored_procedures) = 1
    /\ RunSource.stored_procedures[1].sql = JStr(SqlBody)
    /\ [i \in 1..3 |-> lineage.ret.graph.edges[i].id] = <<S("e0"), S("e1"), S("e2")>>
    /\ [i \in 1..3 |-> lineage.ret.graph.edges[i].target_node] = <<S("v1"), S("v2"), S("p1")>>
    /\ Len(lineage.ret.graph.edges) = 3

\* the names of the columns a text gives a view or procedure that declares
\* none, for the texts of the documents
ColumnsOfText(sql) ==
    IF sql = JStr(SqlBody) THEN <<S("b")>>
    ELSE IF sql = JStr(SqlGood) \/ sql = JStr(SqlHop) THEN <<S("a")>>
    ELSE IF sql = JStr(S("CREATE VIEW v_grades AS ") \o SqlGrades)
    THEN <<S("employee_id"), S("pct")>>
    ELSE <<>>

\* the column names of the object o of the catalog source, in declared order
NamesOf(o) ==
    IF o.columns = <<>> /\ "sql" \in DOMAIN o THEN ColumnsOfText(o.sql)
    ELSE [j \in DOMAIN o.columns |-> lower(o.columns[j].name)]

\* the node n stands for the object o of the given kind
NodeFor(n, o, kind) ==
    /\ n.id = o.name
    /\ n.type = kind
    /\ [j \in DOMAIN n.columns |-> n.columns[j].name] = NamesOf(o)

\* the kinds of the objects of the catalog source, in catalog order
KindsOf(src) ==
    [i \in DOMAIN src.tables |-> "table"] \o [i \in DOMAIN src.views |-> "view"]
    \o [i \in DOMAIN src.stored_procedures |-> "procedure"]

\* C14: a returned graph has one node per object of the catalog, the tables,
\* then the views, then the procedures, each in catalog order, with the
\* object's name as id, its kind and its columns in declared order, whether or
\* not an edge touches it and whether the edges were parsed or explicit.
C14_Nodes ==
    lineage.made /\ lineage.ret.has_graph =>
        /\ Len(lineage.ret.graph.nodes) = Len(KindsOf(RunSource))
        /\ \A i \in DOMAIN lineage.ret.graph.nodes :
              NodeFor(lineage.ret.graph.nodes[i],
                      (RunSource.tables \o RunSource.views \o RunSource.stored_procedures)[i],
                      KindsOf(RunSource)[i])

\* a table, a view and a procedure are the nodes of a graph without any edge
C14_Witness ==
    /\ lineage.made
    /\ lineage.ret.has_graph
    /\ lineage.ret.graph.edges = <<>>
    /\ [i \in DOMAIN lineage.ret.graph.nodes |-> lineage.ret.graph.nodes[i].type]
           = <<"table", "view", "procedure">>
    /\ [i \in DOMAIN lineage.ret.graph.nodes |-> lineage.ret.graph.nodes[i].id]
           = <<S("Emp"), S("v1"), S("p1")>>

\* the tables and views of the catalog source: the objects of the Resolution
\* Index
Indexed(src) == src.tables \o src.views

\* the source of the edge e is a column of a table or view of the index, which
\* holds names and columns in lower case
Resolves(e) ==
    \E i \in DOMAIN Indexed(RunSource) :
        /\ e.source_node = lower(Indexed(RunSource)[i].name)
        /\ e.source_column \in Range(NamesOf(Indexed(RunSource)[i]))

\* C15 as stated: in any run that returns a graph, every edge's source names a
\* table or view of the run's catalog and one of its columns.
C15_SourcesResolve ==
    lineage.made /\ lineage.ret.has_graph =>
        \A j \in DOMAIN lineage.ret.graph.edges : Resolves(lineage.ret.graph.edges[j])

\* C15: in a run without explicit lineage, every edge's source names a table or
\* view of the run's index and one of its columns; the entries of an explicit
\* list become edges without being looked up.
C15_ParsedSourcesResolve ==
    ParsedRun =>
        \A j \in DOMAIN lineage.ret.graph.edges : Resolves(lineage.ret.graph.edges[j])

\* a text that reads a column emp has and one it does not have gives the one edge
C15_Witness ==
    /\ ParsedRun
    /\ Len(RunSource.views) = 2
    /\ RunSource.views[1].sql = JStr(SqlViaProc)
    /\ RunSource.views[2].sql = JStr(SqlGood)
    /\ Len(lineage.ret.graph.edges) >= 1
    /\ \A j \in DOMAIN lineage.ret.graph.edges : Resolves(lineage.ret.graph.edges[j])

\* no two objects of the catalog source bear the same name
UniqueNames(src) ==
    \A i, j \in DOMAIN (Indexed(src) \o src.stored_procedures) :
        (Indexed(src) \o src.stored_procedures)[i].name
            = (Indexed(src) \o src.stored_procedures)[j].name => i = j

\* C16: in a run without explicit lineage over a catalog with unique names, no
\* edge has a stored procedure as source_node, also when a view's text names
\* the procedure after FROM and reads one of its output columns.
C16_ProceduresNeverSources ==
    ParsedRun /\ UniqueNames(RunSource) =>
        \A j \in DOMAIN lineage.ret.graph.edges :
            \A k \in DOMAIN RunSource.stored_procedures :
                lineage.ret.graph.edges[j].source_node
                    # lower(RunSource.stored_procedures[k].name)

\* the view v1 reads q.b from the procedure p1, whose body gives p1 the column
\* b: p1 is a node with that column and the target of an edge, never a source
C16_Witness ==
    /\ ParsedRun
    /\ UniqueNames(RunSource)
    /\ Len(RunSource.views) >= 1
    /\ RunSource.views[1].sql = JStr(SqlViaProc)
    /\ Len(RunSource.stored_procedures) = 1
    /\ RunSource.stored_procedures[1].sql = JStr(SqlBody)
    /\ \E n \in DOMAIN lineage.ret.graph.nodes :
          /\ lineage.ret.graph.nodes[n].id = S("p1")
          /\ [c \in DOMAIN lineage.ret.graph.nodes[n].columns |->
                 lineage.ret.graph.nodes[n].columns[c].name] = <<S("b")>>
    /\ \E j \in DOMAIN lineage.ret.graph.edges :
          lineage.ret.graph.edges[j].target_node = S("p1")
    /\ \A j \in DOMAIN lineage.ret.graph.edges :
          lineage.ret.graph.edges[j].source_node # S("p1")

\* the text has no letter in upper case
IsLower(text) == text = lower(text)

\* C17 as stated: every edge of a returned graph, parsed or explicit, has
\* source_node, source_column, target_node and target_column in lower case,
\* whatever the case of the names in the catalog, the text or the explicit list.
C17_AllLower ==
    lineage.made /\ lineage.ret.has_graph =>
        \A j \in DOMAIN lineage.ret.graph.edges :
            /\ IsLower(lineage.ret.graph.edges[j].source_node)
            /\ IsLower(lineage.ret.graph.edges[j].source_column)
            /\ IsLower(lineage.ret.graph.edges[j].target_node)
            /\ IsLower(lineage.ret.graph.edges[j].target_column)

\* the catalog of the run could not be obtained: the connection id is not in
\* the registry, reading the database raised, or the document is one
\* get_all_objects raises on
CatalogUnavailable ==
    /\ lineage.made
    /\ \/ lineage.conn_id \notin DOMAIN CONNECTIONS
       \/ lineage.conn_id = S("hr") /\ ~lineage.db.ok
       \/ lineage.conn_id = JsonId /\ RunDoc = DocNoCatalog

\* the message of the failure the run met
FailureDescription ==
    IF lineage.conn_id \notin DOMAIN CONNECTIONS THEN S("Unknown connection: ") \o lineage.conn_id
    ELSE IF lineage.conn_id = S("hr") THEN lineage.db.error
    ELSE S("expected string or bytes-like object")

\* C18: a _run_lineage call for an unknown connection id, or whose connector
\* raises while giving the catalog, returns no graph and a non-empty error
\* message carrying the failure description, calls the connector at most once
\* and leaves the CONNECTIONS registry as it was.
C18_CatalogUnavailable ==
    [][(~lineage.made /\ CatalogUnavailable') =>
           /\ ~lineage'.ret.has_graph
           /\ lineage'.ret.err # <<>>
           /\ lineage'.ret.err = FailureDescription'
           /\ lineage'.ret.connector_calls <= 1
           /\ lineage'.ret.parse_calls = <<>>
           /\ CONNECTIONS' = CONNECTIONS]_vars

\* the uploaded document's connector raised: one call, the failure value with
\* the message of the exception
C18_Witness ==
    /\ CatalogUnavailable
    /\ lineage.conn_id = JsonId
    /\ ~lineage.ret.has_graph
    /\ lineage.ret.err = S("expected string or bytes-like object")
    /\ lineage.ret.connector_calls = 1

\* parser.parse raises for the object o: its SQL is set and is no text
ParseRaises(o) == o.sql.type \notin {"str", "null", "absent"} /\ Truthy(o.sql)

\* the objects with the SQL of those parse raises for taken away
WithoutRaising(objs) ==
    [i \in DOMAIN objs |-> IF ParseRaises(objs[i]) THEN [objs[i] EXCEPT !.sql = JNull] ELSE objs[i]]

\* the document with its raising views and procedures left without SQL
Silenced(doc) ==
    [doc EXCEPT !.views = WithoutRaising(doc.views),
                !.stored_procedures = WithoutRaising(doc.stored_procedures)]

\* one warning per object parse raises for, in catalog order
WarningsFor(objs) ==
    [i \in DOMAIN SelectSeq(objs, ParseRaises) |->
        SelectSeq(objs, ParseRaises)[i].name \o S(": expected string or bytes-like object")]

\* C22: in a run without explicit lineage the warnings are exactly one
\* '<name>: <failure description>' per object whose parse raises, no edge has
\* such an object as target, and the edges are those, in the same order, of the
\* run over the same document with these objects left without SQL; objects
\* whose parse returns add no warning.
C22_Isolation ==
    JsonRun /\ ParsedRun =>
        /\ lineage.ret.warnings = WarningsFor(Derived(RunDoc))
        /\ \A i \in DOMAIN Derived(RunDoc) :
              ParseRaises(Derived(RunDoc)[i]) =>
                  \A j \in DOMAIN lineage.ret.graph.edges :
                      lineage.ret.graph.edges[j].target_node # Derived(RunDoc)[i].name
        /\ lineage.ret.graph.edges = json_run(Silenced(RunDoc)).graph.edges

\* parse raised for the second of three objects: one warning for it, and the
\* edges of the first and the third
C22_Witness ==
    /\ ThreeDerived
    /\ SecondIsNoText
    /\ ParseRaises(Derived(RunDoc)[2])
    /\ lineage.ret.warnings = <<S("v2: expected string or bytes-like object")>>
    /\ Len(lineage.ret.graph.edges) = 2
    /\ lineage.ret.graph.edges[2].id = S("e1")

\* the ids of the nodes of the returned graph
NodeIds == {lineage.ret.graph.nodes[n].id : n \in DOMAIN lineage.ret.graph.nodes}

\* C24 as stated: in a run without explicit lineage over a catalog with unique
\* names, also names with upper-case letters, the source_node and the
\* target_node of every edge are ids of nodes of the same graph.
C24_NoDanglingEdges ==
    ParsedRun /\ UniqueNames(RunSource) =>
        \A j \in DOMAIN lineage.ret.graph.edges :
            /\ lineage.ret.graph.edges[j].source_node \in NodeIds
            /\ lineage.ret.graph.edges[j].target_node \in NodeIds

\* ------------------------------------------------------------------------
\* Registrations: /api/connect and /api/upload-json
\* ------------------------------------------------------------------------

\* what a handler returns without writing the registry
Refused(test_only) ==
    [registers |-> FALSE, status |-> 400, test_only |-> test_only, cid |-> <<>>, conf |-> NoConf]

\* the response 'Connection successful' of a test_only request
Tested ==
    [registers |-> FALSE, status |-> 200, test_only |-> TRUE, cid |-> <<>>, conf |-> NoConf]

\* cid = f'<prefix>_{int(time.time())}' and the conf stored under it
Registering(prefix, now, conf) ==
    [registers |-> TRUE, status |-> 200, test_only |-> FALSE,
     cid |-> prefix \o S("_") \o Decimal(now), conf |-> conf]

\* data.get('label', 'Unnamed Connection').strip() or 'Unnamed Connection'
LabelOf(label) == IF strip(label) = <<>> THEN S("Unnamed Connection") ELSE strip(label)

\* os.path.exists(path): hr.db is the one file present
FileExists(path) == path = S("hr.db")

\* add_connection registering whether or not the request is test_only
add_connection_eager(data, now) ==
    IF data.type = "sqlite"
    THEN (IF strip(data.path) = <<>> \/ ~FileExists(strip(data.path)) \/ ~data.test_ok
          THEN Refused(data.test_only)
          ELSE [Registering(S("sqlite"), now,
                            [type |-> "sqlite", label |-> LabelOf(data.label),
                             path |-> strip(data.path), connector |-> <<>>])
                   EXCEPT !.test_only = data.test_only])
    ELSE Refused(data.test_only)

\* add_connection up to the write of CONNECTIONS: data is request.json with
\* test_ok telling whether connector.test() returns; now is int(time.time())
add_connection(data, now) ==
    IF data.type = "sqlite"
    THEN (IF strip(data.path) = <<>> THEN Refused(data.test_only)
          ELSE IF ~FileExists(strip(data.path)) THEN Refused(data.test_only)
          ELSE IF ~data.test_ok THEN Refused(data.test_only)
          ELSE IF data.test_only THEN Tested
          ELSE Registering(S("sqlite"), now,
                           [type |-> "sqlite", label |-> LabelOf(data.label),
                            path |-> strip(data.path), connector |-> <<>>]))
    ELSE IF data.type = "sqlserver"
    THEN (IF strip(data.server) = <<>> \/ strip(data.database) = <<>>
          THEN Refused(data.test_only)
          ELSE IF ~data.test_ok THEN Refused(data.test_only)
          ELSE IF data.test_only THEN Tested
          ELSE Registering(S("ss"), now,
                           [type |-> "sqlserver", label |-> LabelOf(data.label),
                            path |-> <<>>, connector |-> <<>>]))
    ELSE Refused(data.test_only)

\* upload_json up to the write of CONNECTIONS: file.kind tells whether the
\* request has a file, whether it is JSON, and whether the JSON has one of the
\* keys tables and lineage (JsonConnector.test)
upload_json(file, now) ==
    IF file.kind \in {"missing", "invalid_json", "no_keys"} THEN Refused(FALSE)
    ELSE Registering(S("json"), now,
                     [type |-> "json", label |-> S("JSON Metadata"), path |-> <<>>,
                      connector |-> file.raw])

\* ---- requests ----

NoData ==
    [type |-> "none", label |-> <<>>, path |-> <<>>, server |-> <<>>, database |-> <<>>,
     test_ok |-> FALSE, test_only |-> FALSE]

SqliteRequests ==
    {[NoData EXCEPT !.type = "sqlite", !.label = l, !.path = p, !.test_ok = ok, !.test_only = t] :
        l \in {S(" Sales ")}, p \in {<<>>, S("  "), S(" hr.db "), S("gone.db")},
        ok \in BOOLEAN, t \in BOOLEAN}

SqlServerRequests ==
    {[NoData EXCEPT !.type = "sqlserver", !.server = sv, !.database = S("sales"),
                    !.test_ok = ok, !.test_only = t] :
        sv \in {S(" "), S("db1")}, ok \in BOOLEAN, t \in BOOLEAN}

OtherRequests == {[NoData EXCEPT !.type = "oracle", !.test_only = t] : t \in BOOLEAN}

ConnectRequests == SqliteRequests \cup SqlServerRequests \cup OtherRequests

UploadDocs == {DocGrades, DocUpper}

UploadFiles ==
    {[kind |-> k, raw |-> DocGrades] : k \in {"missing", "invalid_json", "no_keys"}}
    \cup {[kind |-> "document", raw |-> doc] : doc \in UploadDocs}

\* ---- the handlers ----

\* requests answered or in progress
Begun == response.n + Cardinality({h \in DOMAIN handlers : handlers[h].pc = "store"})

\* the handler h runs endpoint up to its outcome: it answers at once, or it
\* has its cid and is about to write the registry
Handle(h, endpoint, outcome) ==
    /\ handlers[h].pc = "idle"
    /\ Begun < MaxRequests
    /\ IF outcome.registers
       THEN /\ handlers' = [handlers EXCEPT ![h] =
                               [pc |-> "store", endpoint |-> endpoint,
                                test_only |-> outcome.test_only,
                                cid |-> outcome.cid, conf |-> outcome.conf]]
            /\ response' = response
       ELSE /\ response' = [n |-> response.n + 1, endpoint |-> endpoint,
                            status |-> outcome.status, test_only |-> outcome.test_only,
                            registered |-> <<>>]
            /\ handlers' = handlers
    /\ UNCHANGED <<parser, call, csv, CONNECTIONS, lineage, clock>>

\* POST /api/connect
AddConnection(h) == \E data \in ConnectRequests : Handle(h, "connect", add_connection(data, clock))

\* POST /api/upload-json
UploadJson(h) == \E file \in UploadFiles : Handle(h, "upload", upload_json(file, clock))

\* CONNECTIONS[cid] = conf, and the response {'success': True, 'id': cid, ...}
StoreConnection(h) ==
    /\ handlers[h].pc = "store"
    /\ CONNECTIONS' = [id \in DOMAIN CONNECTIONS \cup {handlers[h].cid} |->
                          IF id = handlers[h].cid THEN handlers[h].conf ELSE CONNECTIONS[id]]
    /\ response' = [n |-> response.n + 1, endpoint |-> handlers[h].endpoint, status |-> 200,
                    test_only |-> handlers[h].test_only,
                    registered |-> handlers[h].cid]
    /\ handlers' = [handlers EXCEPT ![h] = Idle]
    /\ UNCHANGED <<parser, call, csv, lineage, clock>>

\* int(time.time()) moves on to the next second
Tick ==
    /\ clock < MaxClock
    /\ clock' = clock + 1
    /\ UNCHANGED <<parser, call, csv, CONNECTIONS, lineage, handlers, response>>

\* export_html: _run_lineage(conn_id) and the label of the connection, both
\* read from CONNECTIONS
ExportHtml(conn_id) ==
    /\ ~lineage.made
    /\ \E db \in IF conn_id \in DOMAIN CONNECTIONS /\ CONNECTIONS[conn_id].type = "sqlite"
                 THEN DbOutcomes ELSE {DbUnreadable} :
          lineage' = [made |-> TRUE, endpoint |-> "export", conn_id |-> conn_id, db |-> db,
                      ret |-> run_lineage(CONNECTIONS, conn_id, db)]
    /\ UNCHANGED <<parser, call, csv, CONNECTIONS, web>>

\* the registry of a freshly started app
RegistryInit ==
    /\ parser = NoParser
    /\ call = NoCall
    /\ csv = NoCsv
    /\ CONNECTIONS = InitialConnections
    /\ lineage = NoLineage
    /\ WebIdle

RegistryNext ==
    \/ \E h \in 1..MaxHandlers : AddConnection(h)
    \/ \E h \in 1..MaxHandlers : UploadJson(h)
    \/ \E h \in 1..MaxHandlers : StoreConnection(h)
    \/ Tick
    \/ \E conn_id \in RequestIds : GetLineage(conn_id)
    \/ \E conn_id \in RequestIds : ExportHtml(conn_id)

SpecRegistry == RegistryInit /\ [][RegistryNext]_vars

\* ------------------------------------------------------------------------
\* Properties of the registrations
\* ------------------------------------------------------------------------

\* a request to /api/connect or /api/upload-json is answered in this step
Answers == response'.n # response.n

\* C25: every successful upload and every successful non-test connect adds
\* one new entry to CONNECTIONS under an id that was not in use before, and
\* no entry registered before is replaced or lost, also when two
\* registrations fall in the same clock second or overlap
C25_FreshIds ==
    [][(Answers /\ response'.registered # <<>>) =>
          /\ response'.registered \notin DOMAIN CONNECTIONS
          /\ DOMAIN CONNECTIONS' = DOMAIN CONNECTIONS \cup {response'.registered}
          /\ \A id \in DOMAIN CONNECTIONS : CONNECTIONS'[id] = CONNECTIONS[id]]_vars

\* C26: a connect call with test_only, a connect or upload call answered
\* with an error, and every lineage or export call leave CONNECTIONS as it was
C26_RegistryFrame ==
    [][(\/ Answers /\ (response'.test_only \/ response'.status = 400)
        \/ lineage' # lineage)
       => CONNECTIONS' = CONNECTIONS]_vars

\* a test_only connect answered with success after a registration, the
\* registered entry still there
C26_Witness ==
    /\ response.n = 2
    /\ response.endpoint = "connect"
    /\ response.test_only
    /\ response.status = 200
    /\ response.registered = <<>>
    /\ DOMAIN CONNECTIONS # DOMAIN InitialConnections

====
